---- MODULE Spec2Model ----
(***************************************************************************)
(* Stint-based tire-degradation and pace-normalisation computations of the *)
(* Formula1 analysis scripts.                                              *)
(*                                                                         *)
(* Lap times are integers in tenths of a second (900 = 90.0 s).  Values    *)
(* the scripts compute with floating-point division (means, slopes,        *)
(* percentages) are exact rationals [num, den], compared by cross          *)
(* multiplication.                                                         *)
(***************************************************************************)
EXTENDS Integers, Sequences, FiniteSets, TLC

VARIABLES
    pc,            \* position of qualifying_vs_race_pace.main / analyze_race_stints
    session_laps,  \* race_session.laps.pick_driver(driver_code)
    race_laps,     \* main: the laps handed to analyze_race_stints (with Stint)
    stints,        \* analyze_race_stints: keys of laps.groupby('Stint'), in iteration order
    stint_idx,     \* analyze_race_stints: position of the for loop in stints
    stint_data,    \* analyze_race_stints: the rows appended so far
    polyfit_calls, \* the arguments of every np.polyfit call made so far
    cmp_pc,        \* position of compare_drivers_lap_times
    driver_idx,    \* compare_drivers_lap_times: position in driver_codes
    driver_laps,   \* compare_drivers_lap_times: session.laps.pick_driver(driver_code)
    valid_laps,    \* compare_drivers_lap_times: the Lap Filter's output
    all_drivers_laps, \* compare_drivers_lap_times: the concatenated valid laps
    cons_pc,       \* position of analyze_consistency
    round_idx,     \* analyze_consistency: number of race events processed
    driver_paces,  \* analyze_consistency: pace (or None) of each driver of the race
    fastest_race_pace, \* analyze_consistency: min(all_race_paces) of the race
    season_data,   \* analyze_consistency: the records appended so far
    summary_idx,   \* compare_drivers_lap_times: position of the summary loop in driver_codes
    summaries,     \* compare_drivers_lap_times: the numerical summary printed per driver
    delta_pc,      \* position of analyze_quali_race_pace_delta
    delta_idx,     \* analyze_quali_race_pace_delta: position in driver_codes
    results,       \* analyze_quali_race_pace_delta: the records appended so far
    sector_pc,     \* position of analyze_sector_times
    sector_idx,    \* analyze_sector_times: position in driver_codes
    sector_all_drivers_laps, \* analyze_sector_times: all_drivers_laps
    fastest_laps_telemetry,  \* analyze_sector_times: the drivers with a telemetry entry
    sector_printed,          \* analyze_sector_times: the figures of the numerical summary
    strat_pc,      \* position of analyze_tire_strategy_impact
    strat_laps,    \* analyze_tire_strategy_impact: session.laps.pick_drivers(driver_codes)
    strat_stints,  \* analyze_tire_strategy_impact: the stints table
    start_pc,      \* position of analyze_race_start_performance
    event_idx,     \* analyze_race_start_performance: number of race events processed
    lap1_data,     \* analyze_race_start_performance: the table get_lap1_data returned
    all_starts_data, \* analyze_race_start_performance: the tables appended so far
    deg_pc, \* position of analyze_tire_degradation
    deg_driver_laps, \* analyze_tire_degradation: session.laps.pick_driver(driver_code)
    plot_data, \* analyze_tire_degradation: the valid laps the regression loop reads
    compound_idx, \* analyze_tire_degradation: position of the regression loop in the compounds
    degradation_info, \* analyze_tire_degradation: the slopes reported so far
    win_pc, \* position of section 4 of analyze_winner_performance
    win_idx, \* analyze_winner_performance: position in all_drivers_to_analyze
    all_driver_laps, \* analyze_winner_performance: laps.pick_driver(driver)
    driver_degradation, \* analyze_winner_performance: the average degradation of the drivers processed
    winner_report, \* analyze_winner_performance: what section 4 prints for the winner
    perf_pc, \* position of race_time_analysis (main block and analyze_race_performance)
    race_idx, \* race_time_analysis: number of the completed race processed
    driver_performance_data, \* analyze_race_performance: the rows appended for the race
    performance_df, \* analyze_race_performance: the table after dropna()
    insights, \* race_time_analysis: what analyze_race_performance returned for the race
    all_season_insights, \* race_time_analysis: the insights kept so far
    insight_idx, \* race_time_analysis: position of the summary loop in all_season_insights
    winner_counts, \* race_time_analysis: winner_fastest_count, winner_consistent_count, winner_dominant_count
    sched_pc, \* position of get_most_recent_completed_race
    schedule, \* get_most_recent_completed_race: fastf1.get_event_schedule(year)
    today, \* get_most_recent_completed_race: today's date
    most_recent_race, \* get_most_recent_completed_race: the (EventName, RoundNumber) returned
    pred_pc, \* position of predict_winner_simple
    grand_prix_round_to_predict, \* predict_winner_simple: the round to predict
    round_num, \* predict_winner_simple: the round the collecting loop is at
    all_drivers_performance, \* predict_winner_simple: the (round, value) lists of every driver
    driver_scores, \* predict_winner_simple: the scores entries
    predicted_winner, \* predict_winner_simple: the driver printed as predicted winner
    rd_pc, \* position of get_race_data
    rd_laps, \* get_race_data: race_session.laps, by driver
    fastest_race_pace_overall, \* get_race_data: the fastest accurate green-flag lap time of the race
    rd_data \* get_race_data: the dictionary returned

stint_vars == <<pc, session_laps, race_laps, stints, stint_idx, stint_data, polyfit_calls>>
cmp_vars == <<cmp_pc, driver_idx, driver_laps, valid_laps, all_drivers_laps,
              summary_idx, summaries>>
cons_vars == <<cons_pc, round_idx, driver_paces, fastest_race_pace, season_data>>
delta_vars == <<delta_pc, delta_idx, results>>
sector_vars == <<sector_pc, sector_idx, sector_all_drivers_laps, fastest_laps_telemetry,
                 sector_printed>>
strat_vars == <<strat_pc, strat_laps, strat_stints>>
start_vars == <<start_pc, event_idx, lap1_data, all_starts_data>>
deg_vars == <<deg_pc, deg_driver_laps, plot_data, compound_idx, degradation_info>>
win_vars == <<win_pc, win_idx, all_driver_laps, driver_degradation, winner_report>>
perf_vars == <<perf_pc, race_idx, driver_performance_data, performance_df, insights, all_season_insights, insight_idx, winner_counts>>
sched_vars == <<sched_pc, schedule, today, most_recent_race>>
pred_vars == <<pred_pc, grand_prix_round_to_predict, round_num, all_drivers_performance, driver_scores, predicted_winner>>
rd_vars == <<rd_pc, rd_laps, fastest_race_pace_overall, rd_data>>
vars == <<stint_vars, cmp_vars, cons_vars, delta_vars, sector_vars, strat_vars, start_vars, deg_vars, win_vars, perf_vars, sched_vars, pred_vars, rd_vars>>

\* what a step of one script leaves alone: the variables of the other scripts
stint_others == <<cmp_vars, cons_vars, delta_vars, sector_vars, strat_vars, start_vars,
    deg_vars,
    win_vars,
    perf_vars,
    sched_vars,
    pred_vars,
    rd_vars>>
cmp_others == <<stint_vars, cons_vars, delta_vars, sector_vars, strat_vars, start_vars,
    deg_vars,
    win_vars,
    perf_vars,
    sched_vars,
    pred_vars,
    rd_vars>>
cons_others == <<stint_vars, cmp_vars, delta_vars, sector_vars, strat_vars, start_vars,
    deg_vars,
    win_vars,
    perf_vars,
    sched_vars,
    pred_vars,
    rd_vars>>
delta_others == <<stint_vars, cmp_vars, cons_vars, sector_vars, strat_vars, start_vars,
    deg_vars,
    win_vars,
    perf_vars,
    sched_vars,
    pred_vars,
    rd_vars>>
sector_others == <<stint_vars, cmp_vars, cons_vars, delta_vars, strat_vars, start_vars,
    deg_vars,
    win_vars,
    perf_vars,
    sched_vars,
    pred_vars,
    rd_vars>>
strat_others == <<stint_vars, cmp_vars, cons_vars, delta_vars, sector_vars, start_vars,
    deg_vars,
    win_vars,
    perf_vars,
    sched_vars,
    pred_vars,
    rd_vars>>
start_others == <<stint_vars, cmp_vars, cons_vars, delta_vars, sector_vars, strat_vars,
    deg_vars,
    win_vars,
    perf_vars,
    sched_vars,
    pred_vars,
    rd_vars>>
deg_others == <<stint_vars, cmp_vars, cons_vars, delta_vars, sector_vars, strat_vars, start_vars,
    win_vars,
    perf_vars,
    sched_vars,
    pred_vars,
    rd_vars>>
win_others == <<stint_vars, cmp_vars, cons_vars, delta_vars, sector_vars, strat_vars, start_vars, deg_vars,
    perf_vars,
    sched_vars,
    pred_vars,
    rd_vars>>
perf_others == <<stint_vars, cmp_vars, cons_vars, delta_vars, sector_vars, strat_vars, start_vars, deg_vars, win_vars,
    sched_vars,
    pred_vars,
    rd_vars>>
sched_others == <<stint_vars, cmp_vars, cons_vars, delta_vars, sector_vars, strat_vars, start_vars, deg_vars, win_vars, perf_vars,
    pred_vars,
    rd_vars>>
pred_others == <<stint_vars, cmp_vars, cons_vars, delta_vars, sector_vars, strat_vars, start_vars, deg_vars, win_vars, perf_vars, sched_vars,
    rd_vars>>
rd_others == <<stint_vars, cmp_vars, cons_vars, delta_vars, sector_vars, strat_vars, start_vars, deg_vars, win_vars, perf_vars, sched_vars, pred_vars>>

(***************************************************************************)
(* Bounds of the model.                                                    *)
(***************************************************************************)
MaxLaps == 3      \* laps of one driver in the stint pipeline
MaxCmpLaps == 2   \* laps of one driver in compare_drivers_lap_times
MaxRounds == 1    \* race events of the season in analyze_consistency

(***************************************************************************)
(* Values of the lap table.                                                *)
(***************************************************************************)
NaT == 0          \* LapTime is NaT (lap times are positive)
NaN == -1         \* LapNumber / relative lap number is NaN
None == -1        \* a pace that is None (a pace is never negative)
LapTimes == {900, 905, 910, 990}

Range(s) == {s[i] : i \in 1..Len(s)}

RECURSIVE SumSeq(_)
SumSeq(s) == IF s = <<>> THEN 0 ELSE Head(s) + SumSeq(Tail(s))

RECURSIVE SortedSeqOf(_)
\* the elements of a set of integers in ascending order
SortedSeqOf(S) ==
    IF S = {} THEN <<>>
    ELSE LET m == CHOOSE x \in S : \A y \in S : x <= y
         IN  <<m>> \o SortedSeqOf(S \ {m})

RECURSIVE Insert(_, _)
Insert(x, s) ==
    IF s = <<>> THEN <<x>>
    ELSE IF x <= Head(s) THEN <<x>> \o s
    ELSE <<Head(s)>> \o Insert(x, Tail(s))

RECURSIVE SortValues(_)
\* the values of a sequence of integers in ascending order, duplicates kept
SortValues(s) == IF s = <<>> THEN <<>> ELSE Insert(Head(s), SortValues(Tail(s)))

(***************************************************************************)
(* The Lap Filter: the boolean mask repeated across the scripts.           *)
(***************************************************************************)
\* a mask without the PitOutTime condition
LapMaskNoPitOut(lap) ==
    /\ lap.IsAccurate = TRUE
    /\ lap.LapTime # NaT
    /\ ~lap.PitInTime

LapMask(lap) ==
    /\ lap.IsAccurate = TRUE
    /\ lap.LapTime # NaT
    /\ ~lap.PitInTime      \* PitInTime.isna()
    /\ ~lap.PitOutTime     \* PitOutTime.isna()

\* laps.loc[mask]: the rows whose mask is true, in the order of the table
LapFilter(laps) == SelectSeq(laps, LapMask)

\* fastf1 Laps.pick_accurate(): the rows whose IsAccurate is true
pick_accurate(laps) == SelectSeq(laps, LAMBDA lap : lap.IsAccurate = TRUE)

(***************************************************************************)
(* Stint assignment from the pit flags (main, and the fallback of          *)
(* analyze_race_stints).                                                   *)
(***************************************************************************)
\* PitOutTime.notna() | PitInTime.notna() (PitOutFlag: the pit-out flag alone)
PitOutFlag(lap) == lap.PitOutTime
PitFlag(lap) == lap.PitOutTime \/ lap.PitInTime

\* (flags).cumsum() at row i (CumSumFromOne: a cumulative sum that starts at 1)
CumSumFromOne(laps, i) == Cardinality({j \in 1..i : PitFlag(laps[j])}) + 1
CumSum(laps, i) == Cardinality({j \in 1..i : PitFlag(laps[j])})

\* Stint = cumsum + 1; Stint += 1 on the rows with a PitOutTime; fillna(1)
\* changes nothing, a cumulative sum of booleans is never NaN
AssignStints(laps) ==
    [i \in 1..Len(laps) |->
        [laps[i] EXCEPT !.Stint =
            (CumSum(laps, i) + 1) + (IF laps[i].PitOutTime THEN 1 ELSE 0)]]

\* laps.groupby('Stint'): the keys in ascending order
GroupKeys(laps) == SortedSeqOf({laps[i].Stint : i \in 1..Len(laps)})

\* the group of one key: its rows in the order of the table
Group(laps, key) == SelectSeq(laps, LAMBDA lap : lap.Stint = key)

(***************************************************************************)
(* The per-stint computations of analyze_race_stints.                      *)
(***************************************************************************)
Rat(n, d) == [num |-> n, den |-> d]
\* np.nan as a rate
NaNRate == Rat(0, 0)

\* a threshold that also skips the stints of three laps
MinStintLapsFour == 3 + 1
MinStintLaps == 3
QLow == 5
QHigh == 95
SecondsFactor == 60

\* valid_stint_laps['LapTime'].dt.total_seconds()
LapTimesOf(laps) == [i \in 1..Len(laps) |-> laps[i].LapTime]

\* Series.quantile(q/100), linear interpolation between the order statistics
\* at (n-1)q/100; the result is 100 times the quantile
Quantile100(times, q) ==
    LET s  == SortValues(times)
        h  == (Len(s) - 1) * q
        lo == h \div 100
        fr == h % 100
    IN  IF fr = 0 THEN 100 * s[lo + 1]
        ELSE 100 * s[lo + 1] + fr * (s[lo + 2] - s[lo + 1])

\* lap_times_seconds[(lap_times_seconds > q_low) & (lap_times_seconds < q_high)]
TrimOutliers(times) ==
    LET q_low  == Quantile100(times, QLow)
        q_high == Quantile100(times, QHigh)
    IN  SelectSeq(times, LAMBDA t : 100 * t > q_low /\ 100 * t < q_high)

\* Series.min() skips NaN; NaN when every value is NaN
MinLapNumber(laps) ==
    LET nums == {laps[i].LapNumber : i \in 1..Len(laps)} \ {NaN}
    IN  IF nums = {} THEN NaN ELSE CHOOSE m \in nums : \A n \in nums : m <= n

\* valid_stint_laps['LapNumber'] - valid_stint_laps['LapNumber'].min()
RelativeLapNumbers(laps) ==
    LET m == MinLapNumber(laps)
    IN  [i \in 1..Len(laps) |->
            IF laps[i].LapNumber = NaN \/ m = NaN THEN NaN ELSE laps[i].LapNumber - m]

\* ~np.isnan(stint_lap_numbers) & ~np.isnan(lap_times_seconds): the rows kept
ValidIndices(rel, times) ==
    {i \in 1..Len(rel) : rel[i] # NaN /\ times[i] # NaT}

RECURSIVE PickIndices(_, _, _)
\* s[valid_indices]: the values at the kept rows, from row i on, in order
PickIndices(s, keep, i) ==
    IF i > Len(s) THEN <<>>
    ELSE (IF i \in keep THEN <<s[i]>> ELSE <<>>) \o PickIndices(s, keep, i + 1)

\* np.polyfit(x, y, 1)[0]: the least-squares slope, (n Sxy - Sx Sy) / (n Sxx - Sx Sx)
PolyfitSlope(x, y) ==
    LET n   == Len(x)
        Sx  == SumSeq(x)
        Sy  == SumSeq(y)
        Sxy == SumSeq([i \in 1..n |-> x[i] * y[i]])
        Sxx == SumSeq([i \in 1..n |-> x[i] * x[i]])
    IN  Rat(n * Sxy - Sx * Sy, n * Sxx - Sx * Sx)

\* degradation = poly[0] * 60
Degradation(slope) == Rat(slope.num * SecondsFactor, slope.den)

\* Series.mean()
Mean(s) == Rat(SumSeq(s), Len(s))

\* Series.mode()[0]: the most frequent value, the first in sorted order on a tie
CompoundOrder == <<"MEDIUM", "SOFT">>
Mode(laps) ==
    LET count(c) == Cardinality({i \in 1..Len(laps) : laps[i].Compound = c})
        best == CHOOSE k \in 1..Len(CompoundOrder) :
                    /\ \A j \in 1..Len(CompoundOrder) :
                           count(CompoundOrder[j]) <= count(CompoundOrder[k])
                    /\ \A j \in 1..(k - 1) :
                           count(CompoundOrder[j]) < count(CompoundOrder[k])
    IN  CompoundOrder[best]

(***************************************************************************)
(* qualifying_vs_race_pace.py: one iteration of main's driver loop and the *)
(* call of analyze_race_stints it makes.                                   *)
(***************************************************************************)
\* the lap table of one driver: row i has LapNumber i unless its number is NaN
MkLaps(f) ==
    [i \in DOMAIN f |->
        [LapNumber   |-> IF f[i].HasNumber THEN i ELSE NaN,
         LapTime     |-> f[i].LapTime,
         IsAccurate  |-> f[i].IsAccurate,
         PitInTime   |-> f[i].PitInTime,
         PitOutTime  |-> f[i].PitOutTime,
         Compound    |-> f[i].Compound,
         Stint       |-> NaN]]

\* rows that vary in the flags the Lap Filter and the segmentation read
FlagRows ==
    [IsAccurate : BOOLEAN, LapTime : {NaT, 900}, PitInTime : BOOLEAN,
     PitOutTime : BOOLEAN, HasNumber : {TRUE}, Compound : {"SOFT"}]

\* rows that vary in the values the degradation estimator reads
PaceRows ==
    [IsAccurate : {TRUE}, LapTime : LapTimes, PitInTime : {FALSE},
     PitOutTime : BOOLEAN, HasNumber : BOOLEAN, Compound : {"SOFT"}]

\* rows that vary in the compound and the lap time
CompoundRows ==
    [IsAccurate : {TRUE}, LapTime : LapTimes, PitInTime : {FALSE},
     PitOutTime : {FALSE}, HasNumber : {TRUE}, Compound : {"SOFT", "MEDIUM"}]

StintIdle ==
    /\ pc = "idle"
    /\ session_laps = <<>>
    /\ race_laps = <<>>
    /\ stints = <<>>
    /\ stint_idx = 0
    /\ stint_data = <<>>
    /\ polyfit_calls = <<>>

StintInit ==
    /\ pc = "main"
    /\ \E k \in 0..MaxLaps :
           \E f \in [1..k -> FlagRows] \cup [1..k -> PaceRows]
                       \cup [1..k -> CompoundRows] :
               session_laps = MkLaps(f)
    /\ race_laps = <<>>
    /\ stints = <<>>
    /\ stint_idx = 0
    /\ stint_data = <<>>
    /\ polyfit_calls = <<>>

\* main, lines 240-245: pick_accurate, then the stint assignment when any lap is left
main_assign_stints ==
    /\ pc = "main"
    /\ LET picked == pick_accurate(session_laps)
       IN  race_laps' = IF picked # <<>> THEN AssignStints(picked) ELSE picked
    /\ pc' = "analyze"
    /\ UNCHANGED <<session_laps, stints, stint_idx, stint_data, polyfit_calls>>
    /\ UNCHANGED stint_others

\* analyze_race_stints, lines 49-55: the fallback assignment when every Stint
\* is null, then groupby('Stint')
analyze_race_stints_groupby ==
    /\ pc = "analyze"
    /\ LET laps == IF \A i \in 1..Len(race_laps) : race_laps[i].Stint = NaN
                   THEN AssignStints(race_laps) ELSE race_laps
       IN  /\ race_laps' = laps
           /\ stints' = GroupKeys(laps)
    /\ stint_idx' = 1
    /\ stint_data' = <<>>
    /\ pc' = "loop"
    /\ UNCHANGED <<session_laps, polyfit_calls>>
    /\ UNCHANGED stint_others

\* the locals of one iteration of `for stint_num, stint_laps in stints`
stint_num == stints[stint_idx]
stint_laps == Group(race_laps, stint_num)
valid_stint_laps == LapFilter(stint_laps)
lap_times_seconds == LapTimesOf(valid_stint_laps)
filtered_lap_times == TrimOutliers(lap_times_seconds)
stint_lap_numbers == RelativeLapNumbers(valid_stint_laps)
\* the rows kept, cut down to the laps the percentile trim leaves
valid_indices_trimmed ==
    {i \in ValidIndices(stint_lap_numbers, lap_times_seconds) :
        /\ 100 * lap_times_seconds[i] > Quantile100(lap_times_seconds, QLow)
        /\ 100 * lap_times_seconds[i] < Quantile100(lap_times_seconds, QHigh)}
valid_indices == ValidIndices(stint_lap_numbers, lap_times_seconds)
polyfit_x == PickIndices(stint_lap_numbers, valid_indices, 1)
polyfit_y == PickIndices(lap_times_seconds, valid_indices, 1)

InLoop == pc = "loop" /\ stint_idx <= Len(stints)

\* lines 97-103: the row of the stint (StintRowOfTrimmed: a row whose lap count
\* and compound are taken from the laps the percentile trim leaves)
StintRowOfTrimmed(degradation) ==
    LET kept == SelectSeq(valid_stint_laps,
                    LAMBDA lap : lap.LapTime \in Range(filtered_lap_times))
    IN  [Stint    |-> stint_num,
         Compound |-> Mode(kept),
         Laps     |-> Len(kept),
         AvgPace  |-> Mean(filtered_lap_times),
         Degradation_s_per_lap |-> degradation]
StintRow(degradation) ==
    [Stint    |-> stint_num,
     Compound |-> Mode(valid_stint_laps),
     Laps     |-> Len(valid_stint_laps),
     AvgPace  |-> Mean(filtered_lap_times),
     Degradation_s_per_lap |-> degradation]

\* lines 66-67: fewer than 3 valid laps, continue
stint_skip_few_laps ==
    /\ InLoop
    /\ Len(valid_stint_laps) < MinStintLaps
    /\ stint_idx' = stint_idx + 1
    /\ UNCHANGED <<pc, session_laps, race_laps, stints, stint_data, polyfit_calls>>
    /\ UNCHANGED stint_others

\* lines 77-78: nothing left after the percentile trim, continue
stint_skip_empty_trim ==
    /\ InLoop
    /\ Len(valid_stint_laps) >= MinStintLaps
    /\ filtered_lap_times = <<>>
    /\ stint_idx' = stint_idx + 1
    /\ UNCHANGED <<pc, session_laps, race_laps, stints, stint_data, polyfit_calls>>
    /\ UNCHANGED stint_others

\* lines 89-91 and 97-103: more than one point, polyfit, the row is appended.
\* The lap numbers of a driver's laps are distinct and the lap times finite, so
\* np.polyfit raises nothing here and the except clause of line 94 is not taken.
stint_fit ==
    /\ InLoop
    /\ Len(valid_stint_laps) >= MinStintLaps
    /\ filtered_lap_times # <<>>
    /\ Cardinality(valid_indices) > 1
    /\ polyfit_calls' = Append(polyfit_calls,
           [Stint |-> stint_num, x |-> polyfit_x, y |-> polyfit_y])
    /\ stint_data' = Append(stint_data,
           StintRow(Degradation(PolyfitSlope(polyfit_x, polyfit_y))))
    /\ stint_idx' = stint_idx + 1
    /\ UNCHANGED <<pc, session_laps, race_laps, stints>>
    /\ UNCHANGED stint_others

\* lines 92-93 and 97-103: at most one point, degradation = 0.0, the row is appended
stint_zero_fallback ==
    /\ InLoop
    /\ Len(valid_stint_laps) >= MinStintLaps
    /\ filtered_lap_times # <<>>
    /\ Cardinality(valid_indices) <= 1
    /\ stint_data' = Append(stint_data, StintRow(Rat(0, 1)))
    /\ stint_idx' = stint_idx + 1
    /\ UNCHANGED <<pc, session_laps, race_laps, stints, polyfit_calls>>
    /\ UNCHANGED stint_others

\* line 105: return pd.DataFrame(stint_data)
analyze_race_stints_return ==
    /\ pc = "loop"
    /\ stint_idx > Len(stints)
    /\ pc' = "done"
    /\ UNCHANGED <<session_laps, race_laps, stints, stint_idx, stint_data, polyfit_calls>>
    /\ UNCHANGED stint_others

(***************************************************************************)
(* compare_lap_times.py: the driver loop of compare_drivers_lap_times.     *)
(***************************************************************************)
driver_codes == <<"RUS", "HAM">>

CmpRows ==
    [IsAccurate : BOOLEAN, LapTime : {NaT, 900}, PitInTime : BOOLEAN,
     PitOutTime : BOOLEAN, Compound : {"SOFT"}]

\* rows that vary in the values the numerical summary reads
CmpPaceRows ==
    [IsAccurate : {TRUE}, LapTime : {900, 910}, PitInTime : {FALSE},
     PitOutTime : {FALSE}, Compound : {"SOFT", "MEDIUM"}]

\* session.laps.pick_driver(driver_code): the laps of one driver, numbered from 1
MkDriverLaps(driver, f) ==
    [i \in DOMAIN f |->
        [Driver      |-> driver,
         LapNumber   |-> i,
         LapTime     |-> f[i].LapTime,
         IsAccurate  |-> f[i].IsAccurate,
         PitInTime   |-> f[i].PitInTime,
         PitOutTime  |-> f[i].PitOutTime,
         Compound    |-> f[i].Compound]]

CmpIdle ==
    /\ cmp_pc = "idle"
    /\ driver_idx = 0
    /\ driver_laps = <<>>
    /\ valid_laps = <<>>
    /\ all_drivers_laps = <<>>
    /\ summary_idx = 0
    /\ summaries = <<>>

CmpInit ==
    /\ cmp_pc = "loop"
    /\ driver_idx = 1
    /\ driver_laps = <<>>
    /\ valid_laps = <<>>
    /\ all_drivers_laps = <<>>
    /\ summary_idx = 1
    /\ summaries = <<>>

\* lines 33-41: the next driver's laps and the Lap Filter on them
cmp_filter_driver ==
    /\ cmp_pc = "loop"
    /\ driver_idx <= Len(driver_codes)
    /\ \E k \in 0..MaxCmpLaps : \E f \in [1..k -> CmpRows] \cup [1..k -> CmpPaceRows] :
           LET laps == MkDriverLaps(driver_codes[driver_idx], f)
           IN  /\ driver_laps' = laps
               /\ valid_laps' = LapFilter(laps)
    /\ cmp_pc' = "filtered"
    /\ UNCHANGED <<driver_idx, all_drivers_laps, summary_idx, summaries>>
    /\ UNCHANGED cmp_others

\* lines 43-45: no valid lap, the message is printed, continue
\* (cmp_no_valid_laps_return: a driver without valid laps ends the function)
cmp_no_valid_laps_return ==
    /\ cmp_pc = "filtered"
    /\ valid_laps = <<>>
    /\ cmp_pc' = "done"
    /\ driver_laps' = <<>>
    /\ valid_laps' = <<>>
    /\ UNCHANGED <<driver_idx, all_drivers_laps, summary_idx, summaries>>
    /\ UNCHANGED cmp_others
cmp_no_valid_laps ==
    /\ cmp_pc = "filtered"
    /\ valid_laps = <<>>
    /\ driver_idx' = driver_idx + 1
    /\ cmp_pc' = "loop"
    /\ driver_laps' = <<>>     \* the locals of the iteration are dead once it ends
    /\ valid_laps' = <<>>
    /\ UNCHANGED <<all_drivers_laps, summary_idx, summaries>>
    /\ UNCHANGED cmp_others

\* lines 47-49: the valid laps are concatenated to all_drivers_laps
cmp_concat ==
    /\ cmp_pc = "filtered"
    /\ valid_laps # <<>>
    /\ all_drivers_laps' = all_drivers_laps \o valid_laps
    /\ driver_idx' = driver_idx + 1
    /\ cmp_pc' = "loop"
    /\ driver_laps' = <<>>     \* the locals of the iteration are dead once it ends
    /\ valid_laps' = <<>>
    /\ UNCHANGED <<summary_idx, summaries>>
    /\ UNCHANGED cmp_others

\* lines 51-53: no driver had a valid lap, return
cmp_return_empty ==
    /\ cmp_pc = "loop"
    /\ driver_idx > Len(driver_codes)
    /\ all_drivers_laps = <<>>
    /\ cmp_pc' = "done"
    /\ UNCHANGED <<driver_idx, driver_laps, valid_laps, all_drivers_laps,
                   summary_idx, summaries>>
    /\ UNCHANGED cmp_others

\* lines 55-103: the plots are made of all_drivers_laps
cmp_report ==
    /\ cmp_pc = "loop"
    /\ driver_idx > Len(driver_codes)
    /\ all_drivers_laps # <<>>
    /\ cmp_pc' = "report"
    /\ UNCHANGED <<driver_idx, driver_laps, valid_laps, all_drivers_laps,
                   summary_idx, summaries>>
    /\ UNCHANGED cmp_others

\* all_drivers_laps[all_drivers_laps['Driver'] == driver_code]
driver_laps_summary(driver_code) ==
    SelectSeq(all_drivers_laps, LAMBDA lap : lap.Driver = driver_code)

\* driver_laps_summary[driver_laps_summary['Compound'] == compound]
compound_data(laps, compound) ==
    SelectSeq(laps, LAMBDA lap : lap.Compound = compound)

RECURSIVE UniqueCompounds(_)
\* Series.unique(): the values in the order of their first appearance
UniqueCompounds(laps) ==
    IF laps = <<>> THEN <<>>
    ELSE <<laps[1].Compound>> \o
         UniqueCompounds(SelectSeq(Tail(laps), LAMBDA lap : lap.Compound # laps[1].Compound))

\* compound_data['LapNumber']
LapNumberSeq(laps) == [i \in 1..Len(laps) |-> laps[i].LapNumber]

\* line 115: len(compound_data) > 1 (MoreThanNoLap: a guard that lets a group of
\* one lap through)
MoreThanNoLap(laps) == Len(laps) > 0
MoreThanOneLap(laps) == Len(laps) > 1

RECURSIVE DegradationInfo(_, _, _)
\* lines 112-117: one entry for each compound of more than one lap, from
\* position i of the compounds on
DegradationInfo(laps, compounds, i) ==
    IF i > Len(compounds) THEN <<>>
    ELSE LET data == compound_data(laps, compounds[i])
         IN  (IF MoreThanOneLap(data)
              THEN <<[Compound |-> compounds[i],
                      slope |-> PolyfitSlope(LapNumberSeq(data), LapTimesOf(data))]>>
              ELSE <<>>)
             \o DegradationInfo(laps, compounds, i + 1)

RECURSIVE AvgLapTimes(_, _)
\* line 109: groupby('Compound')['LapTime(s)'].mean(), the compounds in sorted
\* order, from position i of CompoundOrder on
AvgLapTimes(laps, i) ==
    IF i > Len(CompoundOrder) THEN <<>>
    ELSE LET data == compound_data(laps, CompoundOrder[i])
         IN  (IF data # <<>>
              THEN <<[Compound |-> CompoundOrder[i], LapTime |-> Mean(LapTimesOf(data))]>>
              ELSE <<>>)
             \o AvgLapTimes(laps, i + 1)

\* lines 107-126: what the summary loop prints for one driver
DriverSummary(driver_code) ==
    LET laps == driver_laps_summary(driver_code)
    IN  IF laps # <<>>
        THEN [Driver |-> driver_code, Outcome |-> "Analysis Results",
              avg_lap_times |-> AvgLapTimes(laps, 1),
              degradation_info |-> DegradationInfo(laps, UniqueCompounds(laps), 1)]
        ELSE [Driver |-> driver_code, Outcome |-> "No valid laps to summarize",
              avg_lap_times |-> <<>>,
              degradation_info |-> <<>>]

\* lines 106-126: one iteration of the summary loop
cmp_summarize_driver ==
    /\ cmp_pc = "report"
    /\ summary_idx <= Len(driver_codes)
    /\ summaries' = Append(summaries, DriverSummary(driver_codes[summary_idx]))
    /\ summary_idx' = summary_idx + 1
    /\ UNCHANGED <<cmp_pc, driver_idx, driver_laps, valid_laps, all_drivers_laps>>
    /\ UNCHANGED cmp_others

\* the summary loop is over, the function returns
cmp_summary_end ==
    /\ cmp_pc = "report"
    /\ summary_idx > Len(driver_codes)
    /\ cmp_pc' = "done"
    /\ UNCHANGED <<driver_idx, driver_laps, valid_laps, all_drivers_laps,
                   summary_idx, summaries>>
    /\ UNCHANGED cmp_others

(***************************************************************************)
(* season_performance_consistency.py: the race loop of analyze_consistency.*)
(***************************************************************************)
\* the drivers of race_session.results, in the order of the table
result_drivers == <<"VER", "NOR", "PIA", "ALB">>
\* the driver_codes argument
DRIVER_CODES == <<"VER", "NOR", "PIA">>
\* the values get_race_pace_data returns: a median lap time, or None
Paces == {800, 820, 840}

\* a percentage relative to the value itself
RelativePercentOfValue(value, reference) ==
    Rat((value - reference) * 100, value)

\* (value - reference) / reference * 100
RelativePercent(value, reference) ==
    Rat((value - reference) * 100, reference)

\* min(all_race_paces)
MinPace(paces) ==
    LET S == {paces[d] : d \in DOMAIN paces} \ {None}
    IN  CHOOSE m \in S : \A p \in S : m <= p

RECURSIVE SeasonRecords(_, _, _, _)
\* lines 94-103: one record for each driver of driver_paces that is in driver_codes,
\* from position i of the results on
SeasonRecords(paces, fastest, round, i) ==
    IF i > Len(result_drivers) THEN <<>>
    ELSE LET d == result_drivers[i]
         IN  (IF paces[d] # None /\ d \in Range(DRIVER_CODES)
              THEN <<[Round |-> round, Driver |-> d,
                      RacePaceRelative |-> RelativePercent(paces[d], fastest)]>>
              ELSE <<>>)
             \o SeasonRecords(paces, fastest, round, i + 1)

NoPaces == [d \in Range(result_drivers) |-> None]

ConsIdle ==
    /\ cons_pc = "idle"
    /\ round_idx = 0
    /\ driver_paces = NoPaces
    /\ fastest_race_pace = None
    /\ season_data = <<>>

ConsInit ==
    /\ cons_pc = "loop"
    /\ round_idx = 0
    /\ driver_paces = NoPaces
    /\ fastest_race_pace = None
    /\ season_data = <<>>

\* lines 69-75: the race session cannot be loaded, continue
cons_load_fails ==
    /\ cons_pc = "loop"
    /\ round_idx < MaxRounds
    /\ round_idx' = round_idx + 1
    /\ UNCHANGED <<cons_pc, driver_paces, fastest_race_pace, season_data>>
    /\ UNCHANGED cons_others

\* lines 77-87: the pace of every driver of the results
cons_collect_paces ==
    /\ cons_pc = "loop"
    /\ round_idx < MaxRounds
    /\ \E p \in [Range(result_drivers) -> Paces \cup {None}] : driver_paces' = p
    /\ round_idx' = round_idx + 1
    /\ cons_pc' = "paces"
    /\ UNCHANGED <<fastest_race_pace, season_data>>
    /\ UNCHANGED cons_others

\* lines 89-90: no driver has a pace, continue
cons_no_paces ==
    /\ cons_pc = "paces"
    /\ \A d \in DOMAIN driver_paces : driver_paces[d] = None
    /\ cons_pc' = "loop"
    /\ UNCHANGED <<round_idx, driver_paces, fastest_race_pace, season_data>>
    /\ UNCHANGED cons_others

\* lines 92-103: the fastest pace and the relative pace of the drivers asked for
cons_normalize ==
    /\ cons_pc = "paces"
    /\ \E d \in DOMAIN driver_paces : driver_paces[d] # None
    /\ fastest_race_pace' = MinPace(driver_paces)
    /\ season_data' = season_data \o
           SeasonRecords(driver_paces, MinPace(driver_paces), round_idx, 1)
    /\ cons_pc' = "loop"
    /\ UNCHANGED <<round_idx, driver_paces>>
    /\ UNCHANGED cons_others

\* lines 105-110: the season is over; season_df is made of season_data
cons_season_end ==
    /\ cons_pc = "loop"
    /\ round_idx = MaxRounds
    /\ cons_pc' = IF season_data = <<>> THEN "done" ELSE "summary"
    /\ UNCHANGED <<round_idx, driver_paces, fastest_race_pace, season_data>>
    /\ UNCHANGED cons_others

(***************************************************************************)
(* quali_race_pace_delta.py: the driver loop of                            *)
(* analyze_quali_race_pace_delta.                                          *)
(***************************************************************************)
\* race_session.results['Abbreviation'].tolist()
delta_driver_codes == <<"VER", "NOR", "PIA">>
\* the values get_driver_paces returns beside None: the seconds of the fastest
\* qualifying lap (nothing keeps a lap time of 0 s out) and the median race lap
QualiPaces == {0, 800}
RacePaces == {820, 840}

DeltaIdle ==
    /\ delta_pc = "idle"
    /\ delta_idx = 0
    /\ results = <<>>

DeltaInit ==
    /\ delta_pc = "loop"
    /\ delta_idx = 1
    /\ results = <<>>

\* lines 87-99: both paces are not None, the percentage is computed and stored.
\* r_pace is a numpy float, so the division by a q_pace of 0 raises nothing and
\* gives inf: a rational with denominator 0
delta_append_result ==
    /\ delta_pc = "loop"
    /\ delta_idx <= Len(delta_driver_codes)
    /\ \E q_pace \in QualiPaces : \E r_pace \in RacePaces :
           results' = Append(results,
               [Driver       |-> delta_driver_codes[delta_idx],
                QualiPace    |-> q_pace,
                RacePace     |-> r_pace,
                DeltaPercent |-> RelativePercent(r_pace, q_pace)])
    /\ delta_idx' = delta_idx + 1
    /\ UNCHANGED delta_pc
    /\ UNCHANGED delta_others

\* lines 87-91 and 100-101: a pace is None, "Insufficient data", the driver is skipped
delta_insufficient_data ==
    /\ delta_pc = "loop"
    /\ delta_idx <= Len(delta_driver_codes)
    /\ \E q_pace \in QualiPaces \cup {None} : \E r_pace \in RacePaces \cup {None} :
           q_pace = None \/ r_pace = None
    /\ delta_idx' = delta_idx + 1
    /\ UNCHANGED <<delta_pc, results>>
    /\ UNCHANGED delta_others

\* lines 103-108: return when there is no result, else the insights and the plot
delta_loop_end ==
    /\ delta_pc = "loop"
    /\ delta_idx > Len(delta_driver_codes)
    /\ delta_pc' = IF results = <<>> THEN "done" ELSE "insights"
    /\ UNCHANGED <<delta_idx, results>>
    /\ UNCHANGED delta_others

(***************************************************************************)
(* sector_time_analysis.py: the driver loop of analyze_sector_times.       *)
(***************************************************************************)
\* the driver_codes argument
sector_driver_codes == <<"VER", "NOR", "PIA", "RUS">>
MaxSectorLaps == 2   \* laps of one driver in analyze_sector_times

\* rows that vary in what decides whether the driver has a valid lap and in
\* how the lap splits into its sectors; the three sector times of a lap add up
\* to the time of the lap
SectorRows ==
    {r \in [IsAccurate : BOOLEAN, LapTime : {NaT, 900}, PitInTime : {FALSE},
            PitOutTime : {FALSE}, Compound : {"SOFT"}, Sector1Time : {290, 300},
            Sector2Time : {300, 310}, Sector3Time : {300}] :
        r.Sector1Time + r.Sector2Time + r.Sector3Time = 900}

\* session.laps.pick_driver(driver_code) with the sector time columns
MkSectorLaps(driver, f) ==
    [i \in DOMAIN f |->
        [Driver      |-> driver,
         LapNumber   |-> i,
         LapTime     |-> f[i].LapTime,
         IsAccurate  |-> f[i].IsAccurate,
         PitInTime   |-> f[i].PitInTime,
         PitOutTime  |-> f[i].PitOutTime,
         Compound    |-> f[i].Compound,
         Sector1Time |-> f[i].Sector1Time,
         Sector2Time |-> f[i].Sector2Time,
         Sector3Time |-> f[i].Sector3Time]]

\* the columns 'Sector1(s)', 'Sector2(s)', 'Sector3(s)'
Sectors == <<1, 2, 3>>

\* lines 131-133: one sector column of a table of laps
SectorTimesOf(laps, sector) ==
    [i \in 1..Len(laps) |->
        IF sector = 1 THEN laps[i].Sector1Time
        ELSE IF sector = 2 THEN laps[i].Sector2Time
        ELSE laps[i].Sector3Time]

\* line 137: the laps of one driver in all_drivers_laps
DriverData(all_laps, code) == SelectSeq(all_laps, LAMBDA lap : lap.Driver = code)

\* Series.min(): NaN for an empty column
MinSectorTime(times) ==
    IF times = <<>> THEN NaN
    ELSE CHOOSE t \in {times[i] : i \in 1..Len(times)} :
             \A i \in 1..Len(times) : t <= times[i]

\* Series.mean(): NaN for an empty column
MeanSectorTime(times) == IF times = <<>> THEN NaNRate ELSE Mean(times)

\* lines 160-162: the sum of the three smallest sector times, NaN when
\* driver_data is empty
IdealLapTime(driver_data) ==
    IF driver_data = <<>> THEN NaNRate
    ELSE Rat(MinSectorTime(SectorTimesOf(driver_data, 1))
             + MinSectorTime(SectorTimesOf(driver_data, 2))
             + MinSectorTime(SectorTimesOf(driver_data, 3)), 1)

\* lines 167-168 and 192-193: the mean sector time of driver_data minus the
\* smallest sector time of all drivers
DeltaToFastest(driver_data, all_laps, sector) ==
    LET times == SectorTimesOf(driver_data, sector)
        fastest_sector_time == MinSectorTime(SectorTimesOf(all_laps, sector))
    IN  IF times = <<>> THEN NaNRate
        ELSE Rat(SumSeq(times) - Len(times) * fastest_sector_time, Len(times))

\* one printed figure of the summary
Figure(kind, code, sector, value) ==
    [Figure |-> kind, Driver |-> code, Sector |-> sector, Value |-> value]

\* lines 136-142: the average sector times of every driver of codes, from
\* position i on, whose driver_data is not empty
RECURSIVE AverageFigures(_, _, _)
AverageFigures(all_laps, codes, i) ==
    IF i > Len(codes) THEN <<>>
    ELSE LET driver_data == DriverData(all_laps, codes[i])
         IN  (IF driver_data = <<>> THEN <<>>
              ELSE [s \in 1..Len(Sectors) |->
                       Figure("Average", codes[i], Sectors[s],
                              MeanSectorTime(SectorTimesOf(driver_data, Sectors[s])))])
             \o AverageFigures(all_laps, codes, i + 1)

\* lines 166-169, and again lines 191-194: the deltas of driver_data
DeltaFigures(all_laps, code) ==
    [s \in 1..Len(Sectors) |->
        Figure("Delta", code, Sectors[s],
               DeltaToFastest(DriverData(all_laps, code), all_laps, Sectors[s]))]

\* lines 135-213: the figures printed for the drivers codes.  The statements
\* after line 143 stand after the driver loop: driver_code and driver_data are
\* the ones the last iteration of the loop left
SectorSummary(all_laps, codes) ==
    LET driver_code == codes[Len(codes)]
    IN  AverageFigures(all_laps, codes, 1)
        \o <<Figure("IdealLap", driver_code, 0, IdealLapTime(DriverData(all_laps, driver_code)))>>
        \o DeltaFigures(all_laps, driver_code)
        \o DeltaFigures(all_laps, driver_code)

SectorIdle ==
    /\ sector_pc = "idle"
    /\ sector_idx = 0
    /\ sector_all_drivers_laps = <<>>
    /\ fastest_laps_telemetry = <<>>
    /\ sector_printed = <<>>

SectorInit ==
    /\ sector_pc = "loop"
    /\ sector_idx = 1
    /\ sector_all_drivers_laps = <<>>
    /\ fastest_laps_telemetry = <<>>
    /\ sector_printed = <<>>

\* lines 49-62: no lap of the driver passes the Lap Filter, continue
sector_no_valid_laps ==
    /\ sector_pc = "loop"
    /\ sector_idx <= Len(sector_driver_codes)
    /\ \E k \in 0..MaxSectorLaps : \E f \in [1..k -> SectorRows] :
           LapFilter(MkSectorLaps(sector_driver_codes[sector_idx], f)) = <<>>
    /\ sector_idx' = sector_idx + 1
    /\ UNCHANGED <<sector_pc, sector_all_drivers_laps, fastest_laps_telemetry, sector_printed>>
    /\ UNCHANGED sector_others

\* lines 49-58 and 64-71: the valid laps are concatenated and the telemetry of
\* the fastest lap is stored
sector_store_telemetry ==
    /\ sector_pc = "loop"
    /\ sector_idx <= Len(sector_driver_codes)
    /\ \E k \in 0..MaxSectorLaps : \E f \in [1..k -> SectorRows] :
           LET valid == LapFilter(MkSectorLaps(sector_driver_codes[sector_idx], f))
           IN  /\ valid # <<>>
               /\ sector_all_drivers_laps' = sector_all_drivers_laps \o valid
    /\ fastest_laps_telemetry' =
           Append(fastest_laps_telemetry, sector_driver_codes[sector_idx])
    /\ sector_idx' = sector_idx + 1
    /\ UNCHANGED <<sector_pc, sector_printed>>
    /\ UNCHANGED sector_others

\* lines 49-58, 64-70 and 331-335: get_telemetry raises for the driver (no car
\* data for the lap); the try statement encloses the whole loop, so the except
\* clause prints the error and the function ends
sector_telemetry_raises ==
    /\ sector_pc = "loop"
    /\ sector_idx <= Len(sector_driver_codes)
    /\ \E k \in 0..MaxSectorLaps : \E f \in [1..k -> SectorRows] :
           LET valid == LapFilter(MkSectorLaps(sector_driver_codes[sector_idx], f))
           IN  /\ valid # <<>>
               /\ sector_all_drivers_laps' = sector_all_drivers_laps \o valid
    /\ sector_pc' = "error"
    /\ UNCHANGED <<sector_idx, fastest_laps_telemetry, sector_printed>>
    /\ UNCHANGED sector_others

\* lines 73-75: no driver had a valid lap, return
sector_return_empty ==
    /\ sector_pc = "loop"
    /\ sector_idx > Len(sector_driver_codes)
    /\ sector_all_drivers_laps = <<>>
    /\ sector_pc' = "done"
    /\ UNCHANGED <<sector_idx, sector_all_drivers_laps, fastest_laps_telemetry, sector_printed>>
    /\ UNCHANGED sector_others

\* lines 77-213: the track maps and the numerical summary
sector_report ==
    /\ sector_pc = "loop"
    /\ sector_idx > Len(sector_driver_codes)
    /\ sector_all_drivers_laps # <<>>
    /\ sector_pc' = "report"
    /\ sector_printed' = SectorSummary(sector_all_drivers_laps, sector_driver_codes)
    /\ UNCHANGED <<sector_idx, sector_all_drivers_laps, fastest_laps_telemetry>>
    /\ UNCHANGED sector_others

(***************************************************************************)
(* tire_strategy_impact.py: the stints table of                            *)
(* analyze_tire_strategy_impact, for the laps of one driver.               *)
(***************************************************************************)
MaxStratLaps == 3    \* laps of the driver in analyze_tire_strategy_impact
\* the values of the Stint column the session delivers
UpstreamStints == {1, 2}

StratRows ==
    [Stint : UpstreamStints, Compound : {"SOFT", "MEDIUM"}, LapTime : {NaT, 900},
     PitOutTime : BOOLEAN]

\* session.laps.pick_drivers(driver_codes): the laps of the driver, numbered from 1
MkStratLaps(f) ==
    [i \in DOMAIN f |->
        [Driver      |-> "NOR",
         LapNumber   |-> i,
         LapTime     |-> f[i].LapTime,
         IsAccurate  |-> TRUE,
         PitInTime   |-> FALSE,
         PitOutTime  |-> f[i].PitOutTime,
         Compound    |-> f[i].Compound,
         Stint       |-> f[i].Stint]]

\* lines 88-93: laps.groupby(['Driver', 'Stint']).agg(...), one row per key in
\* ascending order: Compound is the 'first' value of the group, LapStart and
\* LapEnd the 'min' and 'max' of LapNumber, StintLength its 'count'
StintsTable(laps) ==
    LET keys == GroupKeys(laps)
    IN  [k \in 1..Len(keys) |->
            LET g == Group(laps, keys[k])
            IN  [Driver      |-> g[1].Driver,
                 StintNumber |-> keys[k],
                 Compound    |-> g[1].Compound,
                 LapStart    |-> CHOOSE m \in Range(LapNumberSeq(g)) :
                                     \A n \in Range(LapNumberSeq(g)) : m <= n,
                 LapEnd      |-> CHOOSE m \in Range(LapNumberSeq(g)) :
                                     \A n \in Range(LapNumberSeq(g)) : m >= n,
                 StintLength |-> Len(g)]]

\* lines 97-102: the accurate, timed laps of the stint
StintLapsTimed(laps, stint) ==
    SelectSeq(laps, LAMBDA lap : /\ lap.Driver = stint.Driver
                                 /\ lap.Stint = stint.StintNumber
                                 /\ lap.IsAccurate = TRUE
                                 /\ lap.LapTime # NaT)

RECURSIVE WithAvgLapTime(_, _, _)
\* lines 95-110: AvgLapTime(s) of every stint, the stints without a timed lap
\* (NaN) dropped, from row i of the table on
WithAvgLapTime(laps, table, i) ==
    IF i > Len(table) THEN <<>>
    ELSE LET stint_laps_timed == StintLapsTimed(laps, table[i])
         IN  (IF stint_laps_timed # <<>>
              THEN <<[Driver      |-> table[i].Driver,
                      StintNumber |-> table[i].StintNumber,
                      Compound    |-> table[i].Compound,
                      LapStart    |-> table[i].LapStart,
                      LapEnd      |-> table[i].LapEnd,
                      StintLength |-> table[i].StintLength,
                      AvgLapTime  |-> Mean(LapTimesOf(stint_laps_timed))]>>
              ELSE <<>>)
             \o WithAvgLapTime(laps, table, i + 1)

StratIdle ==
    /\ strat_pc = "idle"
    /\ strat_laps = <<>>
    /\ strat_stints = <<>>

StratInit ==
    /\ strat_pc = "laps"
    /\ \E k \in 0..MaxStratLaps : \E f \in [1..k -> StratRows] :
           strat_laps = MkStratLaps(f)
    /\ strat_stints = <<>>

\* lines 88-93: the stints table
strat_groupby ==
    /\ strat_pc = "laps"
    /\ strat_stints' = StintsTable(strat_laps)
    /\ strat_pc' = "stints"
    /\ UNCHANGED strat_laps
    /\ UNCHANGED strat_others

\* lines 95-110: the average lap time of every stint
strat_avg_lap_times ==
    /\ strat_pc = "stints"
    /\ strat_stints' = WithAvgLapTime(strat_laps, strat_stints, 1)
    /\ strat_pc' = "averaged"
    /\ UNCHANGED strat_laps
    /\ UNCHANGED strat_others

\* lines 112-127: return when no stint is left, else the dashboard and the summary
strat_summary ==
    /\ strat_pc = "averaged"
    /\ strat_pc' = IF strat_stints = <<>> THEN "done" ELSE "summary"
    /\ UNCHANGED <<strat_laps, strat_stints>>
    /\ UNCHANGED strat_others

(***************************************************************************)
(* race_start_analysis.py: the race loop of                                *)
(* analyze_race_start_performance.                                         *)
(***************************************************************************)
MaxEvents == 2       \* completed races of the season in analyze_race_start_performance
\* the drivers of session.results that have a lap 1
Abbreviations == <<"VER", "NOR">>
Positions == {1, 2}
Lap1Times == {NaT, 950}

\* lines 56-72: grid_positions.join(lap1_positions).join(lap1_times), Position
\* renamed to EndLap1Position, the index reset
Lap1Table(f) ==
    [columns |-> {"Abbreviation", "GridPosition", "EndLap1Position", "LapTime"},
     rows |-> [i \in 1..Len(Abbreviations) |->
                  [Abbreviation    |-> Abbreviations[i],
                   GridPosition    |-> f[i].GridPosition,
                   EndLap1Position |-> f[i].EndLap1Position,
                   LapTime         |-> f[i].LapTime]]]

NoTable == [columns |-> {}, rows |-> <<>>]

\* Series.min() of the lap times, NaT skipped; NaT when every value is NaT
MinLapTime(rows) ==
    LET times == {rows[i].LapTime : i \in 1..Len(rows)} \ {NaT}
    IN  IF times = {} THEN NaT ELSE CHOOSE m \in times : \A t \in times : m <= t

\* line 82: data['PositionsGained'] = data['GridPosition'] - data['EndLap1Position']
WithPositionsGained(data) ==
    [columns |-> data.columns \cup {"PositionsGained"},
     rows |-> [i \in 1..Len(data.rows) |->
                  [Abbreviation    |-> data.rows[i].Abbreviation,
                   GridPosition    |-> data.rows[i].GridPosition,
                   EndLap1Position |-> data.rows[i].EndLap1Position,
                   LapTime         |-> data.rows[i].LapTime,
                   PositionsGained |->
                       data.rows[i].GridPosition - data.rows[i].EndLap1Position]]]

\* lines 85-87: data['Lap1TimeDelta'] = data['Lap1Time'] - leader_lap1_time
WithLap1TimeDelta(data) ==
    LET leader_lap1_time == MinLapTime(data.rows)
    IN  [columns |-> data.columns \cup {"Lap1TimeDelta", "Lap1TimeDelta(s)"},
         rows |-> [i \in 1..Len(data.rows) |->
                      [Abbreviation    |-> data.rows[i].Abbreviation,
                       GridPosition    |-> data.rows[i].GridPosition,
                       EndLap1Position |-> data.rows[i].EndLap1Position,
                       LapTime         |-> data.rows[i].LapTime,
                       PositionsGained |-> data.rows[i].PositionsGained,
                       Lap1TimeDelta   |-> data.rows[i].Lap1Time - leader_lap1_time]]]

StartIdle ==
    /\ start_pc = "idle"
    /\ event_idx = 0
    /\ lap1_data = NoTable
    /\ all_starts_data = <<>>

StartInit ==
    /\ start_pc = "loop"
    /\ event_idx = 0
    /\ lap1_data = NoTable
    /\ all_starts_data = <<>>

\* lines 138-143: get_lap1_data returns None (the session cannot be loaded, or
\* it has no results, no laps or no lap 1), the race is skipped
start_no_lap1_data ==
    /\ start_pc = "loop"
    /\ event_idx < MaxEvents
    /\ event_idx' = event_idx + 1
    /\ UNCHANGED <<start_pc, lap1_data, all_starts_data>>
    /\ UNCHANGED start_others

\* lines 138-143: get_lap1_data returns the combined table of the race
start_get_lap1_data ==
    /\ start_pc = "loop"
    /\ event_idx < MaxEvents
    /\ \E f \in [1..Len(Abbreviations) ->
                    [GridPosition : Positions, EndLap1Position : Positions,
                     LapTime : Lap1Times]] :
           lap1_data' = Lap1Table(f)
    /\ event_idx' = event_idx + 1
    /\ start_pc' = "calculate"
    /\ UNCHANGED all_starts_data
    /\ UNCHANGED start_others

\* lines 144-147 and 78-89: calculate_start_performance on the table.  Line 82
\* adds PositionsGained in place; line 86 reads the column 'Lap1Time', which
\* raises KeyError when the table has no such column, and no try statement of
\* analyze_race_start_performance or of the main block catches it
calculate_start_performance ==
    /\ start_pc = "calculate"
    /\ LET data == WithPositionsGained(lap1_data)
       IN  IF "Lap1Time" \in data.columns
           THEN /\ lap1_data' = WithLap1TimeDelta(data)
                /\ all_starts_data' = Append(all_starts_data,
                       [Round |-> event_idx, data |-> WithLap1TimeDelta(data)])
                /\ start_pc' = "loop"
           ELSE /\ lap1_data' = data
                /\ start_pc' = "KeyError"
                /\ UNCHANGED all_starts_data
    /\ UNCHANGED event_idx
    /\ UNCHANGED start_others

\* lines 149-198: the season is over: return when no table was collected, else
\* the plots and the per-driver summary
start_season_end ==
    /\ start_pc = "loop"
    /\ event_idx = MaxEvents
    /\ start_pc' = IF all_starts_data = <<>> THEN "done" ELSE "summary"
    /\ UNCHANGED <<event_idx, lap1_data, all_starts_data>>
    /\ UNCHANGED start_others

(***************************************************************************)
(* tire_degradation_analysis.py: analyze_tire_degradation, the Lap Filter and  *)
(* the regression loop over the compounds.                                 *)
(***************************************************************************)
MaxDegLaps == 3   \* laps of the driver in analyze_tire_degradation
deg_driver_code == "VER"

\* rows that vary in the pit-in flag, the compound and the lap time
DegRows ==
    [IsAccurate : {TRUE}, LapTime : {900, 910}, PitInTime : BOOLEAN,
     PitOutTime : {FALSE}, Compound : {"SOFT", "MEDIUM"}]

DegIdle ==
    /\ deg_pc = "idle"
    /\ deg_driver_laps = <<>>
    /\ plot_data = <<>>
    /\ compound_idx = 0
    /\ degradation_info = <<>>

\* line 29: driver_laps = session.laps.pick_driver(driver_code)
DegInit ==
    /\ deg_pc = "loaded"
    /\ \E k \in 0..MaxDegLaps : \E f \in [1..k -> DegRows] :
           deg_driver_laps = MkDriverLaps(deg_driver_code, f)
    /\ plot_data = <<>>
    /\ compound_idx = 0
    /\ degradation_info = <<>>

\* lines 34-43: the Lap Filter leaves no lap, the function returns
deg_no_valid_laps ==
    /\ deg_pc = "loaded"
    /\ LapFilter(deg_driver_laps) = <<>>
    /\ deg_pc' = "done"
    /\ UNCHANGED <<deg_driver_laps, plot_data, compound_idx, degradation_info>>
    /\ UNCHANGED deg_others

\* lines 34-54: the Lap Filter and the table the regression loop reads
deg_filter ==
    /\ deg_pc = "loaded"
    /\ LapFilter(deg_driver_laps) # <<>>
    /\ plot_data' = LapFilter(deg_driver_laps)
    /\ compound_idx' = 1
    /\ deg_pc' = "loop"
    /\ UNCHANGED <<deg_driver_laps, degradation_info>>
    /\ UNCHANGED deg_others

\* line 76: plot_data['Compound'].unique()
deg_compounds == UniqueCompounds(plot_data)

\* line 77: plot_data[plot_data['Compound'] == compound]
deg_compound_data == compound_data(plot_data, deg_compounds[compound_idx])

\* lines 76-92: one compound of more than one lap, fitted over all its laps
deg_fit_compound ==
    /\ deg_pc = "loop"
    /\ compound_idx <= Len(deg_compounds)
    /\ Len(deg_compound_data) > 1
    /\ degradation_info' = Append(degradation_info,
           [Compound |-> deg_compounds[compound_idx],
            slope |-> PolyfitSlope(LapNumberSeq(deg_compound_data),
                                   LapTimesOf(deg_compound_data))])
    /\ compound_idx' = compound_idx + 1
    /\ UNCHANGED <<deg_pc, deg_driver_laps, plot_data>>
    /\ UNCHANGED deg_others

\* lines 76-89: a compound of one lap gets no entry
deg_skip_compound ==
    /\ deg_pc = "loop"
    /\ compound_idx <= Len(deg_compounds)
    /\ ~(Len(deg_compound_data) > 1)
    /\ compound_idx' = compound_idx + 1
    /\ UNCHANGED <<deg_pc, deg_driver_laps, plot_data, degradation_info>>
    /\ UNCHANGED deg_others

\* the regression loop is over
deg_loop_end ==
    /\ deg_pc = "loop"
    /\ compound_idx > Len(deg_compounds)
    /\ deg_pc' = "done"
    /\ UNCHANGED <<deg_driver_laps, plot_data, compound_idx, degradation_info>>
    /\ UNCHANGED deg_others

(***************************************************************************)
(* race_winner_analysis.py: section 4 (tire management) of                 *)
(* analyze_winner_performance.                                             *)
(***************************************************************************)
MaxWinLaps == 3   \* laps of one driver in analyze_winner_performance
\* line 42: [winner_driver_code] + rival_drivers
all_drivers_to_analyze == <<"NOR", "PIA">>
winner_driver_code == "NOR"
WinStints == {1, 2}
WinRows == [Stint : WinStints, Compound : {"SOFT", "MEDIUM"}, LapTime : {NaT, 900, 910}]

\* laps.pick_driver(driver): the laps of one driver, numbered from 1, with the
\* Stint column of the session
MkWinnerLaps(driver, f) ==
    [i \in DOMAIN f |->
        [Driver    |-> driver,
         LapNumber |-> i,
         Stint     |-> f[i].Stint,
         Compound  |-> f[i].Compound,
         LapTime   |-> f[i].LapTime]]

\* the value pick_fastest() returns when no lap has a time
NoLap == <<>>

RECURSIVE SumRates(_)
\* the sum of a list of rates
SumRates(rates) ==
    IF rates = <<>> THEN Rat(0, 1)
    ELSE LET r == Head(rates)
             t == SumRates(Tail(rates))
         IN  Rat(r.num * t.den + t.num * r.den, r.den * t.den)

\* np.mean(degradation_rates)
MeanRate(rates) == Rat(SumRates(rates).num, SumRates(rates).den * Len(rates))

\* lines 145-147: groupby(["Driver", "Stint", "Compound"]): the (Stint, Compound)
\* pairs that occur, in ascending order
StintCompoundKeys(laps) ==
    LET pairs == {<<s, c>> \in (WinStints \X (1..Len(CompoundOrder))) :
                     \E i \in 1..Len(laps) :
                         laps[i].Stint = s /\ laps[i].Compound = CompoundOrder[c]}
        key(p) == p[1] * (Len(CompoundOrder) + 1) + p[2]
        order == SortedSeqOf({key(p) : p \in pairs})
    IN  [i \in 1..Len(order) |->
            LET p == CHOOSE q \in pairs : key(q) = order[i]
            IN  [Stint |-> p[1], Compound |-> CompoundOrder[p[2]]]]

\* lines 158-160: the laps of one stint and compound
WinStintLaps(laps, stint_info) ==
    SelectSeq(laps, LAMBDA lap : lap.Stint = stint_info.Stint
                                 /\ lap.Compound = stint_info.Compound)

\* fastf1 Laps.pick_fastest(): the single lap with the smallest lap time (the
\* first one on a tie), or no lap when none has a time
pick_fastest(laps) ==
    LET timed == {i \in 1..Len(laps) : laps[i].LapTime # NaT}
    IN  IF timed = {} THEN NoLap
        ELSE laps[CHOOSE i \in timed :
                     /\ \A j \in timed : laps[i].LapTime <= laps[j].LapTime
                     /\ \A j \in timed : j < i => laps[j].LapTime > laps[i].LapTime]

\* lines 163-177: the rates one stint contributes.  stint_laps is one lap, a row
\* of the table: len() counts its fields (none in an empty row), LapTime and
\* LapNumber are scalars and pd.Series(LapNumber) has one element
StintRates(fastest_lap) ==
    IF Cardinality(DOMAIN fastest_lap) > 1
    THEN LET lap_times == <<fastest_lap.LapTime>>
             lap_numbers_series == <<fastest_lap.LapNumber>>
             relative_lap_numbers ==
                 [i \in 1..Len(lap_numbers_series) |->
                     lap_numbers_series[i] - lap_numbers_series[1]]
         IN  IF Len(relative_lap_numbers) > 1
             THEN <<PolyfitSlope(relative_lap_numbers, lap_times)>>
             ELSE <<>>
    ELSE <<>>

RECURSIVE DegradationRates(_, _, _)
\* lines 151-177: the rates of the stints of one driver, from position i of the
\* stint summary on
DegradationRates(laps, keys, i) ==
    IF i > Len(keys) THEN <<>>
    ELSE StintRates(pick_fastest(WinStintLaps(laps, keys[i])))
         \o DegradationRates(laps, keys, i + 1)

\* lines 144-149: a stint of the summary in which no lap has a time
UntimedStint(laps) ==
    \E i \in 1..Len(StintCompoundKeys(laps)) :
        pick_fastest(WinStintLaps(laps, StintCompoundKeys(laps)[i])) = NoLap

WinIdle ==
    /\ win_pc = "idle"
    /\ win_idx = 0
    /\ all_driver_laps = <<>>
    /\ driver_degradation = <<>>
    /\ winner_report = ""

\* line 138: section 4 starts
WinInit ==
    /\ win_pc = "loop"
    /\ win_idx = 1
    /\ all_driver_laps = <<>>
    /\ driver_degradation = <<>>
    /\ winner_report = ""

\* lines 139-181: one driver of the loop
win_driver_degradation ==
    /\ win_pc = "loop"
    /\ win_idx <= Len(all_drivers_to_analyze)
    /\ \E k \in 0..MaxWinLaps : \E f \in [1..k -> WinRows] :
           LET driver == all_drivers_to_analyze[win_idx]
               laps == MkWinnerLaps(driver, f)
               degradation_rates == DegradationRates(laps, StintCompoundKeys(laps), 1)
           IN  /\ all_driver_laps' = laps
               /\ driver_degradation' =
                      (driver :> (IF degradation_rates # <<>>
                                  THEN MeanRate(degradation_rates)
                                  ELSE NaNRate)) @@ driver_degradation
    /\ win_pc' = "rated"
    /\ UNCHANGED <<win_idx, winner_report>>
    /\ UNCHANGED win_others

\* line 139: the loop moves on to the next driver; the laps of this one are
\* not read again
win_next_driver ==
    /\ win_pc = "rated"
    /\ win_idx' = win_idx + 1
    /\ all_driver_laps' = <<>>
    /\ win_pc' = "loop"
    /\ UNCHANGED <<driver_degradation, winner_report>>
    /\ UNCHANGED win_others

\* lines 158-164, 267-270: pick_fastest() finds no timed lap in a stint.  What it
\* returns then depends on the fastf1 release: an empty row, which contributes no
\* rate (win_driver_degradation), or a value without len(), and the except
\* clause ends the analysis
win_pick_fastest_fails ==
    /\ win_pc = "loop"
    /\ win_idx <= Len(all_drivers_to_analyze)
    /\ \E k \in 1..MaxWinLaps : \E f \in [1..k -> WinRows] :
           LET laps == MkWinnerLaps(all_drivers_to_analyze[win_idx], f)
           IN  /\ UntimedStint(laps)
               /\ all_driver_laps' = laps
    /\ win_pc' = "error"
    /\ UNCHANGED <<win_idx, driver_degradation, winner_report>>
    /\ UNCHANGED win_others

\* lines 183-187: what is reported for the winner
win_report ==
    /\ win_pc = "loop"
    /\ win_idx > Len(all_drivers_to_analyze)
    /\ winner_report' = IF driver_degradation[winner_driver_code].den = 0
                        THEN "Insufficient data"
                        ELSE "Average Tire Degradation"
    /\ win_pc' = "done"
    /\ UNCHANGED <<win_idx, all_driver_laps, driver_degradation>>
    /\ UNCHANGED win_others

(***************************************************************************)
(* race_time_analysis.py: analyze_race_performance and the season summary  *)
(* of the main block.                                                      *)
(***************************************************************************)
MaxRaces == 2      \* completed races of the season in race_time_analysis
MaxPerfLaps == 2   \* laps of one driver in analyze_race_performance
TopN == 5
\* line 33: session.results['Abbreviation'].tolist()
all_session_drivers == <<"VER", "NOR">>
\* the value None of an insights field that names a driver
NoDriver == "None"
\* the return value None of analyze_race_performance; a dictionary is <<dict>>
NoInsights == <<>>

\* rows that vary in the pit-in flag and the lap time
PerfRows ==
    [IsAccurate : {TRUE}, LapTime : {900, 910}, PitInTime : BOOLEAN,
     PitOutTime : {FALSE}, Compound : {"SOFT"}]

\* session.results['Position']: the finishing positions of the drivers
PerfPositions ==
    {p \in [1..Len(all_session_drivers) -> 1..Len(all_session_drivers)] :
        \A i, j \in DOMAIN p : i # j => p[i] # p[j]}

\* Series.std() squared: the sample variance, NaN (denominator 0) for one value
Variance(s) ==
    LET n == Len(s)
    IN  Rat(n * SumSeq([i \in 1..n |-> s[i] * s[i]]) - SumSeq(s) * SumSeq(s),
            n * (n - 1))

\* a < b for two rationals with positive denominators
RatLess(a, b) == a.num * b.den < b.num * a.den

RECURSIVE PerformanceData(_, _, _)
\* lines 40-63: one row for each driver with valid laps, from driver i on
PerformanceData(laps, position, i) ==
    IF i > Len(all_session_drivers) THEN <<>>
    ELSE LET valid == LapFilter(laps[i])
         IN  (IF valid = <<>> THEN <<>>
              ELSE <<[Driver |-> all_session_drivers[i],
                      AveragePace |-> Mean(LapTimesOf(valid)),
                      ConsistencyStd |-> Variance(LapTimesOf(valid)),
                      Position |-> position[i]]>>)
             \o PerformanceData(laps, position, i + 1)

\* line 70: dropna(): the rows without a NaN value
DropNaRows(data) == SelectSeq(data, LAMBDA row : row.ConsistencyStd.den # 0)

\* sort_values(by=...): the rows in ascending order, ties in table order
SortRowsBy(rows, Less(_, _)) ==
    LET before(j, i) == Less(rows[j], rows[i]) \/ (~Less(rows[i], rows[j]) /\ j < i)
        rank(i) == Cardinality({j \in 1..Len(rows) : before(j, i)}) + 1
    IN  [k \in 1..Len(rows) |-> rows[CHOOSE i \in 1..Len(rows) : rank(i) = k]]

\* .head(5)
HeadRows(rows) == SubSeq(rows, 1, IF Len(rows) < TopN THEN Len(rows) ELSE TopN)

\* lines 73, 76, 79
top_5_finishers(df) ==
    HeadRows(SortRowsBy(df, LAMBDA a, b : a.Position < b.Position))
top_5_fastest_pace(df) ==
    HeadRows(SortRowsBy(df, LAMBDA a, b : RatLess(a.AveragePace, b.AveragePace)))
top_5_consistent(df) ==
    HeadRows(SortRowsBy(df, LAMBDA a, b : RatLess(a.ConsistencyStd, b.ConsistencyStd)))

DriversOf(rows) == {rows[i].Driver : i \in 1..Len(rows)}

\* line 101: performance_df.loc[performance_df['Position'] == 1]
WinnerRows(df) == SelectSeq(df, LAMBDA row : row.Position = 1)

\* line 101: .iloc[0] of an empty selection raises IndexError
WinnerRowMissing(df) == top_5_finishers(df) # <<>> /\ WinnerRows(df) = <<>>

\* lines 82-130: the insights dictionary
RaceInsights(df) ==
    LET finishers  == DriversOf(top_5_finishers(df))
        fastest    == DriversOf(top_5_fastest_pace(df))
        consistent == DriversOf(top_5_consistent(df))
    IN  [Winner |-> IF top_5_finishers(df) # <<>>
                    THEN WinnerRows(df)[1].Driver ELSE NoDriver,
         OverallFastest |-> IF top_5_fastest_pace(df) # <<>>
                            THEN top_5_fastest_pace(df)[1].Driver ELSE NoDriver,
         OverallMostConsistent |-> IF top_5_consistent(df) # <<>>
                                   THEN top_5_consistent(df)[1].Driver ELSE NoDriver,
         DominantPerformers |-> finishers \cap fastest \cap consistent,
         FastButNotFinished |-> fastest \ finishers,
         ConsistentButNotFinished |-> consistent \ finishers,
         ResultWithoutPaceConsistency |-> finishers \ (fastest \cup consistent)]

PerfIdle ==
    /\ perf_pc = "idle"
    /\ race_idx = 0
    /\ driver_performance_data = <<>>
    /\ performance_df = <<>>
    /\ insights = NoInsights
    /\ all_season_insights = <<>>
    /\ insight_idx = 0
    /\ winner_counts = [fastest |-> 0, consistent |-> 0, dominant |-> 0]

\* lines 144-153: the loop over the completed races starts
PerfInit ==
    /\ perf_pc = "race"
    /\ race_idx = 1
    /\ driver_performance_data = <<>>
    /\ performance_df = <<>>
    /\ insights = NoInsights
    /\ all_season_insights = <<>>
    /\ insight_idx = 0
    /\ winner_counts = [fastest |-> 0, consistent |-> 0, dominant |-> 0]

\* lines 29-36, 132-135: the session does not load, or its results name no
\* driver: the function returns None
perf_session_unavailable ==
    /\ perf_pc = "race"
    /\ race_idx <= MaxRaces
    /\ insights' = NoInsights
    /\ perf_pc' = "returned"
    /\ UNCHANGED <<race_idx, driver_performance_data, performance_df,
                   all_season_insights, insight_idx, winner_counts>>
    /\ UNCHANGED perf_others

\* lines 38-63: the driver loop of one race
perf_collect ==
    /\ perf_pc = "race"
    /\ race_idx <= MaxRaces
    /\ \E position \in PerfPositions :
       \E n \in [1..Len(all_session_drivers) -> 0..MaxPerfLaps] :
       \E f \in [1..Len(all_session_drivers) -> [1..MaxPerfLaps -> PerfRows]] :
           LET laps == [i \in 1..Len(all_session_drivers) |->
                           MkDriverLaps(all_session_drivers[i],
                                        [k \in 1..n[i] |-> f[i][k]])]
           IN  driver_performance_data' = PerformanceData(laps, position, 1)
    /\ perf_pc' = "collected"
    /\ UNCHANGED <<race_idx, performance_df, insights, all_season_insights,
                   insight_idx, winner_counts>>
    /\ UNCHANGED perf_others

\* lines 65-67: no driver has valid laps, the function returns None
perf_no_performance_data ==
    /\ perf_pc = "collected"
    /\ driver_performance_data = <<>>
    /\ insights' = NoInsights
    /\ perf_pc' = "returned"
    /\ UNCHANGED <<race_idx, driver_performance_data, performance_df,
                   all_season_insights, insight_idx, winner_counts>>
    /\ UNCHANGED perf_others

\* lines 69-101, 132-135: the table has rows but none with Position 1: .iloc[0]
\* raises, the except clause returns None
perf_winner_row_missing ==
    /\ perf_pc = "collected"
    /\ driver_performance_data # <<>>
    /\ WinnerRowMissing(DropNaRows(driver_performance_data))
    /\ performance_df' = DropNaRows(driver_performance_data)
    /\ insights' = NoInsights
    /\ perf_pc' = "returned"
    /\ UNCHANGED <<race_idx, driver_performance_data, all_season_insights,
                   insight_idx, winner_counts>>
    /\ UNCHANGED perf_others

\* lines 69-130: the insights dictionary is returned
perf_return_insights ==
    /\ perf_pc = "collected"
    /\ driver_performance_data # <<>>
    /\ ~WinnerRowMissing(DropNaRows(driver_performance_data))
    /\ performance_df' = DropNaRows(driver_performance_data)
    /\ insights' = <<RaceInsights(DropNaRows(driver_performance_data))>>
    /\ perf_pc' = "returned"
    /\ UNCHANGED <<race_idx, driver_performance_data, all_season_insights,
                   insight_idx, winner_counts>>
    /\ UNCHANGED perf_others

\* lines 153-157: the main block keeps the insights of the race unless they are
\* None, and moves on to the next race
perf_append_insights ==
    /\ perf_pc = "returned"
    /\ all_season_insights' = IF insights # NoInsights
                              THEN all_season_insights \o insights
                              ELSE all_season_insights
    /\ race_idx' = race_idx + 1
    /\ driver_performance_data' = <<>>
    /\ performance_df' = <<>>
    /\ insights' = NoInsights
    /\ perf_pc' = "race"
    /\ UNCHANGED <<insight_idx, winner_counts>>
    /\ UNCHANGED perf_others

\* lines 163-170: the races are over; the summary loop starts unless no insights
\* were collected
perf_season_summary ==
    /\ perf_pc = "race"
    /\ race_idx > MaxRaces
    /\ insight_idx' = 1
    /\ perf_pc' = IF all_season_insights = <<>> THEN "done" ELSE "summary"
    /\ UNCHANGED <<race_idx, driver_performance_data, performance_df, insights,
                   all_season_insights, winner_counts>>
    /\ UNCHANGED perf_others

\* lines 181-187: the three winner counters, for one insight
perf_count_insight ==
    /\ perf_pc = "summary"
    /\ insight_idx <= Len(all_season_insights)
    /\ LET insight == all_season_insights[insight_idx]
           inc(b) == IF b THEN 1 ELSE 0
       IN  winner_counts' =
               [fastest |-> winner_counts.fastest
                    + inc(insight.Winner = insight.OverallFastest),
                consistent |-> winner_counts.consistent
                    + inc(insight.Winner = insight.OverallMostConsistent),
                dominant |-> winner_counts.dominant
                    + inc(insight.Winner = insight.OverallFastest
                          /\ insight.Winner = insight.OverallMostConsistent)]
    /\ insight_idx' = insight_idx + 1
    /\ UNCHANGED <<perf_pc, race_idx, driver_performance_data, performance_df,
                   insights, all_season_insights>>
    /\ UNCHANGED perf_others

\* lines 204-208: the summary loop is over, the counters are printed
perf_summary_end ==
    /\ perf_pc = "summary"
    /\ insight_idx > Len(all_season_insights)
    /\ perf_pc' = "done"
    /\ UNCHANGED <<race_idx, driver_performance_data, performance_df, insights,
                   all_season_insights, insight_idx, winner_counts>>
    /\ UNCHANGED perf_others

(***************************************************************************)
(* quali_race_pace_delta.py and sector_time_analysis.py:                   *)
(* get_most_recent_completed_race.                                         *)
(***************************************************************************)
MaxScheduleEvents == 3   \* events of the schedule of the year
\* the days an event or today can fall on
Days == 1..4
EventFormats == {"testing", "conventional"}

\* fastf1.get_event_schedule(year): the events in the order of their dates; a
\* testing event has RoundNumber 0, the races are numbered from 1; the name of
\* an event is its position in the schedule
MkSchedule(f) ==
    [i \in DOMAIN f |->
        [EventName   |-> i,
         RoundNumber |-> IF f[i].EventFormat = "testing" THEN 0
                         ELSE Cardinality({j \in 1..i : f[j].EventFormat # "testing"}),
         EventDate   |-> f[i].EventDate,
         EventFormat |-> f[i].EventFormat]]

Schedules ==
    {MkSchedule(f) : f \in
        {g \in UNION {[1..k -> [EventDate : Days, EventFormat : EventFormats]] :
                          k \in 0..MaxScheduleEvents} :
            \A i \in DOMAIN g : \A j \in DOMAIN g : i < j => g[i].EventDate <= g[j].EventDate}}

\* line 57: schedule[schedule['EventDate'].dt.date < today]
completed_races(sched, day) == SelectSeq(sched, LAMBDA event : event.EventDate < day)

\* line 60: return None, None
NoRace == [EventName |-> None, RoundNumber |-> None]

SchedIdle ==
    /\ sched_pc = "idle"
    /\ schedule = <<>>
    /\ today = 0
    /\ most_recent_race = NoRace

\* lines 54-55: the schedule of the year and today's date
SchedInit ==
    /\ sched_pc = "schedule"
    /\ schedule \in Schedules
    /\ today \in Days
    /\ most_recent_race = NoRace

\* lines 59-60: no event lies before today
sched_no_completed_races ==
    /\ sched_pc = "schedule"
    /\ completed_races(schedule, today) = <<>>
    /\ most_recent_race' = NoRace
    /\ sched_pc' = "returned"
    /\ UNCHANGED <<schedule, today>>
    /\ UNCHANGED sched_others

\* lines 63-64: completed_races.iloc[-1], the last row of the selection
sched_most_recent_race ==
    /\ sched_pc = "schedule"
    /\ completed_races(schedule, today) # <<>>
    /\ LET completed == completed_races(schedule, today)
           last == completed[Len(completed)]
       IN  most_recent_race' = [EventName |-> last.EventName,
                                RoundNumber |-> last.RoundNumber]
    /\ sched_pc' = "returned"
    /\ UNCHANGED <<schedule, today>>
    /\ UNCHANGED sched_others

(***************************************************************************)
(* simple_winner_prediction.py: predict_winner_simple.                     *)
(***************************************************************************)
MaxTargetRound == 3   \* largest grand_prix_round_to_predict
pred_drivers == <<"VER", "NOR">>

\* what get_race_data stores for one driver: positions, and the relative race
\* pace in percent, each possibly None
VerPerfData ==
    [QualiPosition : {None, 1, 3}, RacePosition : {None, 2}, RacePaceRelative : {None, 1}]
NorPerfData ==
    [QualiPosition : {2}, RacePosition : {1}, RacePaceRelative : {0}]

\* the dictionaries get_race_data returns: empty after an error, or one entry
\* for each driver of the race
RaceData ==
    {<<>>} \cup {("VER" :> v) : v \in VerPerfData}
           \cup {("VER" :> v) @@ ("NOR" :> n) : v \in VerPerfData, n \in NorPerfData}

\* lines 117-121
NoPerformance == [QualiPositions |-> <<>>, RacePositions |-> <<>>, RacePaceRelatives |-> <<>>]

\* lines 124-129: (round_num, value) appended unless the value is None
AppendUnlessNone(perf_list, round, value) ==
    IF value # None THEN Append(perf_list, <<round, value>>) ELSE perf_list

\* lines 115-129: the entries of one race added to all_drivers_performance
CollectRace(performance, round, race_data) ==
    [d \in DOMAIN performance \cup DOMAIN race_data |->
        LET old == IF d \in DOMAIN performance THEN performance[d] ELSE NoPerformance
        IN  IF d \in DOMAIN race_data
            THEN [QualiPositions |->
                      AppendUnlessNone(old.QualiPositions, round,
                                       race_data[d].QualiPosition),
                  RacePositions |->
                      AppendUnlessNone(old.RacePositions, round,
                                       race_data[d].RacePosition),
                  RacePaceRelatives |->
                      AppendUnlessNone(old.RacePaceRelatives, round,
                                       race_data[d].RacePaceRelative)]
            ELSE old]

\* item[0] of a (round_num, value) pair: its weight (UnitWeight: every pair
\* weighs the same)
UnitWeight(item) == 1
Weight(item) == item[1]

\* lines 135-140: sum(value * weight) / sum(weight), NaN for an empty list
weighted_avg(perf_list) ==
    IF perf_list = <<>> THEN NaNRate
    ELSE LET total_weight == SumSeq([i \in 1..Len(perf_list) |-> Weight(perf_list[i])])
             weighted_sum == SumSeq([i \in 1..Len(perf_list) |->
                                        perf_list[i][2] * Weight(perf_list[i])])
         IN  Rat(weighted_sum, total_weight)

\* line 148, in tenths
weights == [quali_pos |-> 4, race_pos |-> 4, race_pace |-> 2]
\* lines 153, 158, 163: the values that stand in for a missing average
penalties == [quali_pos |-> 20, race_pos |-> 20, race_pace |-> 10]

\* lines 150-163: one term of the score, in tenths
ScoreTerm(avg, key) ==
    IF avg.den # 0 THEN Rat(avg.num * weights[key], avg.den)
    ELSE Rat(penalties[key] * weights[key], 1)

\* lines 142-171: the scores entry of one driver
DriverScore(driver_code, data) ==
    LET avg_quali_pos == weighted_avg(data.QualiPositions)
        avg_race_pos == weighted_avg(data.RacePositions)
        avg_race_pace_rel == weighted_avg(data.RacePaceRelatives)
    IN  [Driver |-> driver_code,
         AvgQualiPos |-> avg_quali_pos,
         AvgRacePos |-> avg_race_pos,
         AvgRacePaceRel |-> avg_race_pace_rel,
         PredictionScore |-> SumRates(<<ScoreTerm(avg_quali_pos, "quali_pos"),
                                        ScoreTerm(avg_race_pos, "race_pos"),
                                        ScoreTerm(avg_race_pace_rel, "race_pace")>>)]

RECURSIVE DriverScores(_, _)
\* lines 131-171: one entry for each driver of all_drivers_performance, from
\* position i of the drivers on
DriverScores(performance, i) ==
    IF i > Len(pred_drivers) THEN <<>>
    ELSE (IF pred_drivers[i] \in DOMAIN performance
          THEN <<DriverScore(pred_drivers[i], performance[pred_drivers[i]])>>
          ELSE <<>>)
         \o DriverScores(performance, i + 1)

\* lines 177-184: the driver of the first row after sort_values(PredictionScore)
PredictedWinner(scores) ==
    SortRowsBy(scores, LAMBDA a, b : RatLess(a.PredictionScore, b.PredictionScore))[1].Driver

PredIdle ==
    /\ pred_pc = "idle"
    /\ grand_prix_round_to_predict = 0
    /\ round_num = 0
    /\ all_drivers_performance = <<>>
    /\ driver_scores = <<>>
    /\ predicted_winner = NoDriver

\* lines 109-112
PredInit ==
    /\ pred_pc = "collect"
    /\ grand_prix_round_to_predict \in 1..MaxTargetRound
    /\ round_num = 1
    /\ all_drivers_performance = <<>>
    /\ driver_scores = <<>>
    /\ predicted_winner = NoDriver

\* lines 112-129: one round before the target round
pred_collect_round ==
    /\ pred_pc = "collect"
    /\ round_num < grand_prix_round_to_predict
    /\ \E race_data \in RaceData :
           all_drivers_performance' =
               CollectRace(all_drivers_performance, round_num, race_data)
    /\ round_num' = round_num + 1
    /\ UNCHANGED <<pred_pc, grand_prix_round_to_predict, driver_scores, predicted_winner>>
    /\ UNCHANGED pred_others

\* lines 131-171: the rounds are over, the drivers are scored
pred_score_drivers ==
    /\ pred_pc = "collect"
    /\ ~(round_num < grand_prix_round_to_predict)
    /\ driver_scores' = DriverScores(all_drivers_performance, 1)
    /\ pred_pc' = "scored"
    /\ UNCHANGED <<grand_prix_round_to_predict, round_num, all_drivers_performance,
                   predicted_winner>>
    /\ UNCHANGED pred_others

\* lines 173-184: no prediction without scores, else the driver of the lowest score
pred_report ==
    /\ pred_pc = "scored"
    /\ predicted_winner' = IF driver_scores = <<>> THEN NoDriver
                           ELSE PredictedWinner(driver_scores)
    /\ pred_pc' = "done"
    /\ UNCHANGED <<grand_prix_round_to_predict, round_num, all_drivers_performance,
                   driver_scores>>
    /\ UNCHANGED pred_others

(***************************************************************************)
(* simple_winner_prediction.py: get_race_data, the relative race pace of   *)
(* the drivers of one race.  Paces are in twentieths of a second, so that  *)
(* the median of an even number of lap times is an integer.                *)
(***************************************************************************)
MaxRaceDataLaps == 2   \* laps of one driver in get_race_data
\* line 33: race_session.drivers
all_drivers == <<"VER", "NOR">>
\* a pace that is NaN: the min or median of lap times that are all NaT
NaNPace == -2
\* RacePaceRelative is None
NoRelativePace == Rat(None, None)

\* rows that vary in the accuracy flag and the track status
RaceDataFlagRows == [IsAccurate : BOOLEAN, TrackStatus : {"1", "4"}, LapTime : {900}]
\* rows that vary in the lap time
RaceDataPaceRows == [IsAccurate : {TRUE}, TrackStatus : {"1"}, LapTime : {NaT, 900, 910}]

\* race_session.laps: the laps of every driver
RaceLapTables ==
    [1..Len(all_drivers) ->
        UNION {[1..k -> RaceDataFlagRows] \cup [1..k -> RaceDataPaceRows] :
                  k \in 0..MaxRaceDataLaps}]

\* .pick_accurate().pick_track_status('1')
GreenAccurate(laps) ==
    SelectSeq(laps, LAMBDA lap : lap.IsAccurate = TRUE /\ lap.TrackStatus = "1")

\* lines 36, 60: the accurate green-flag laps of the drivers from position i on
\* (own_race_laps: those of the first driver only)
own_race_laps(laps) == GreenAccurate(laps[1])
all_race_laps(laps) ==
    LET concat[i \in 1..(Len(all_drivers) + 1)] ==
            IF i > Len(all_drivers) THEN <<>>
            ELSE GreenAccurate(laps[i]) \o concat[i + 1]
    IN  concat[1]

\* the lap times that are not NaT
TimedLapTimes(laps) == SelectSeq(LapTimesOf(laps), LAMBDA t : t # NaT)

\* Series.min(), NaT skipped
MinLapTimePace(laps) ==
    LET s == TimedLapTimes(laps)
    IN  IF s = <<>> THEN NaNPace ELSE 2 * SortValues(s)[1]

\* Series.median(), NaT skipped: the middle value, or the mean of the two
\* middle values
MedianPace(laps) ==
    LET s == SortValues(TimedLapTimes(laps))
        n == Len(s)
    IN  IF n = 0 THEN NaNPace
        ELSE IF n % 2 = 1 THEN 2 * s[(n + 1) \div 2]
        ELSE s[n \div 2] + s[n \div 2 + 1]

\* lines 37-41
FastestRacePaceOverall(laps) ==
    IF all_race_laps(laps) # <<>> THEN MinLapTimePace(all_race_laps(laps)) ELSE None

\* lines 59-63
DriverRacePace(driver_race_laps) ==
    IF GreenAccurate(driver_race_laps) # <<>>
    THEN MedianPace(GreenAccurate(driver_race_laps)) ELSE None

\* lines 66-68: None unless both paces are there; NaN as soon as one is NaN
RacePaceRelativeOf(race_pace, fastest) ==
    IF race_pace # None /\ fastest # None
    THEN (IF race_pace = NaNPace \/ fastest = NaNPace THEN NaNRate
          ELSE RelativePercent(race_pace, fastest))
    ELSE NoRelativePace

\* lines 43-74: the entry of every driver; the positions are those of the
\* results tables, the drivers in finishing order
RaceDataOf(laps) ==
    [d \in Range(all_drivers) |->
        LET i == CHOOSE k \in 1..Len(all_drivers) : all_drivers[k] = d
        IN  [QualiPosition |-> i,
             RacePosition |-> i,
             RacePaceRelative |->
                 RacePaceRelativeOf(DriverRacePace(laps[i]),
                                    FastestRacePaceOverall(laps))]]

RaceDataIdle ==
    /\ rd_pc = "idle"
    /\ rd_laps = <<>>
    /\ fastest_race_pace_overall = None
    /\ rd_data = <<>>

\* line 17: data = {}
RaceDataInit ==
    /\ rd_pc = "load"
    /\ rd_laps = <<>>
    /\ fastest_race_pace_overall = None
    /\ rd_data = <<>>

\* lines 18-30, 75-77: the round or a session cannot be loaded, the empty
\* dictionary is returned
rd_load_fails ==
    /\ rd_pc = "load"
    /\ rd_pc' = "returned"
    /\ UNCHANGED <<rd_laps, fastest_race_pace_overall, rd_data>>
    /\ UNCHANGED rd_others

\* lines 18-41: the sessions load; the fastest race pace of the field
rd_fastest_race_pace ==
    /\ rd_pc = "load"
    /\ \E laps \in RaceLapTables :
           /\ rd_laps' = laps
           /\ fastest_race_pace_overall' = FastestRacePaceOverall(laps)
    /\ rd_pc' = "drivers"
    /\ UNCHANGED rd_data
    /\ UNCHANGED rd_others

\* lines 43-77: the entries of the drivers, and the return
rd_driver_entries ==
    /\ rd_pc = "drivers"
    /\ rd_data' = RaceDataOf(rd_laps)
    /\ rd_pc' = "returned"
    /\ UNCHANGED <<rd_laps, fastest_race_pace_overall>>
    /\ UNCHANGED rd_others

(***************************************************************************)
(* Specifications: one per script.                                         *)
(***************************************************************************)
Init == StintInit /\ CmpIdle /\ ConsIdle /\ DeltaIdle /\ SectorIdle /\ StratIdle /\ StartIdle
    /\ DegIdle
    /\ WinIdle
    /\ PerfIdle
    /\ SchedIdle
    /\ PredIdle
    /\ RaceDataIdle

Next ==
    \/ main_assign_stints
    \/ analyze_race_stints_groupby
    \/ stint_skip_few_laps
    \/ stint_skip_empty_trim
    \/ stint_fit
    \/ stint_zero_fallback
    \/ analyze_race_stints_return

Spec == Init /\ [][Next]_vars

CmpStart ==
    StintIdle /\ CmpInit /\ ConsIdle /\ DeltaIdle /\ SectorIdle /\ StratIdle /\ StartIdle
    /\ DegIdle
    /\ WinIdle
    /\ PerfIdle
    /\ SchedIdle
    /\ PredIdle
    /\ RaceDataIdle

CmpNext ==
    \/ cmp_filter_driver
    \/ cmp_no_valid_laps
    \/ cmp_concat
    \/ cmp_return_empty
    \/ cmp_report
    \/ cmp_summarize_driver
    \/ cmp_summary_end

SpecCompare == CmpStart /\ [][CmpNext]_vars

ConsStart ==
    StintIdle /\ CmpIdle /\ ConsInit /\ DeltaIdle /\ SectorIdle /\ StratIdle /\ StartIdle
    /\ DegIdle
    /\ WinIdle
    /\ PerfIdle
    /\ SchedIdle
    /\ PredIdle
    /\ RaceDataIdle

ConsNext ==
    \/ cons_load_fails
    \/ cons_collect_paces
    \/ cons_no_paces
    \/ cons_normalize
    \/ cons_season_end

SpecConsistency == ConsStart /\ [][ConsNext]_vars

DeltaStart ==
    StintIdle /\ CmpIdle /\ ConsIdle /\ DeltaInit /\ SectorIdle /\ StratIdle /\ StartIdle
    /\ DegIdle
    /\ WinIdle
    /\ PerfIdle
    /\ SchedIdle
    /\ PredIdle
    /\ RaceDataIdle

DeltaNext ==
    \/ delta_append_result
    \/ delta_insufficient_data
    \/ delta_loop_end

SpecDelta == DeltaStart /\ [][DeltaNext]_vars

SectorStart ==
    StintIdle /\ CmpIdle /\ ConsIdle /\ DeltaIdle /\ SectorInit /\ StratIdle /\ StartIdle
    /\ DegIdle
    /\ WinIdle
    /\ PerfIdle
    /\ SchedIdle
    /\ PredIdle
    /\ RaceDataIdle

SectorNext ==
    \/ sector_no_valid_laps
    \/ sector_store_telemetry
    \/ sector_telemetry_raises
    \/ sector_return_empty
    \/ sector_report

SpecSector == SectorStart /\ [][SectorNext]_vars

StratStart ==
    StintIdle /\ CmpIdle /\ ConsIdle /\ DeltaIdle /\ SectorIdle /\ StratInit /\ StartIdle
    /\ DegIdle
    /\ WinIdle
    /\ PerfIdle
    /\ SchedIdle
    /\ PredIdle
    /\ RaceDataIdle

StratNext ==
    \/ strat_groupby
    \/ strat_avg_lap_times
    \/ strat_summary

SpecStrategy == StratStart /\ [][StratNext]_vars

StartBegin ==
    StintIdle /\ CmpIdle /\ ConsIdle /\ DeltaIdle /\ SectorIdle /\ StratIdle /\ StartInit
    /\ DegIdle
    /\ WinIdle
    /\ PerfIdle
    /\ SchedIdle
    /\ PredIdle
    /\ RaceDataIdle

StartNext ==
    \/ start_no_lap1_data
    \/ start_get_lap1_data
    \/ calculate_start_performance
    \/ start_season_end

SpecStart == StartBegin /\ [][StartNext]_vars

DegStart ==
    StintIdle /\ CmpIdle /\ ConsIdle /\ DeltaIdle /\ SectorIdle /\ StratIdle /\ StartIdle
    /\ WinIdle
    /\ PerfIdle
    /\ SchedIdle
    /\ PredIdle
    /\ RaceDataIdle
    /\ DegInit

DegNext ==
    \/ deg_no_valid_laps
    \/ deg_filter
    \/ deg_fit_compound
    \/ deg_skip_compound
    \/ deg_loop_end

SpecDegradation == DegStart /\ [][DegNext]_vars

WinStart ==
    StintIdle /\ CmpIdle /\ ConsIdle /\ DeltaIdle /\ SectorIdle /\ StratIdle /\ StartIdle
    /\ DegIdle
    /\ PerfIdle
    /\ SchedIdle
    /\ PredIdle
    /\ RaceDataIdle
    /\ WinInit

WinNext ==
    \/ win_driver_degradation
    \/ win_next_driver
    \/ win_pick_fastest_fails
    \/ win_report

SpecWinner == WinStart /\ [][WinNext]_vars

PerfStart ==
    StintIdle /\ CmpIdle /\ ConsIdle /\ DeltaIdle /\ SectorIdle /\ StratIdle /\ StartIdle
    /\ DegIdle
    /\ WinIdle
    /\ SchedIdle
    /\ PredIdle
    /\ RaceDataIdle
    /\ PerfInit

PerfNext ==
    \/ perf_session_unavailable
    \/ perf_collect
    \/ perf_no_performance_data
    \/ perf_winner_row_missing
    \/ perf_return_insights
    \/ perf_append_insights
    \/ perf_season_summary
    \/ perf_count_insight
    \/ perf_summary_end

SpecPerformance == PerfStart /\ [][PerfNext]_vars

SchedStart ==
    StintIdle /\ CmpIdle /\ ConsIdle /\ DeltaIdle /\ SectorIdle /\ StratIdle /\ StartIdle
    /\ DegIdle
    /\ WinIdle
    /\ PerfIdle
    /\ PredIdle
    /\ RaceDataIdle
    /\ SchedInit

SchedNext ==
    \/ sched_no_completed_races
    \/ sched_most_recent_race

SpecSchedule == SchedStart /\ [][SchedNext]_vars

PredStart ==
    StintIdle /\ CmpIdle /\ ConsIdle /\ DeltaIdle /\ SectorIdle /\ StratIdle /\ StartIdle
    /\ DegIdle
    /\ WinIdle
    /\ PerfIdle
    /\ SchedIdle
    /\ RaceDataIdle
    /\ PredInit

PredNext ==
    \/ pred_collect_round
    \/ pred_score_drivers
    \/ pred_report

SpecPrediction == PredStart /\ [][PredNext]_vars

\* either of the two scripts that normalise a race pace against the fastest
\* pace of the field: analyze_consistency or get_race_data
RelativePaceStart ==
    StintIdle /\ CmpIdle /\ DeltaIdle /\ SectorIdle /\ StratIdle /\ StartIdle /\ DegIdle
    /\ WinIdle /\ PerfIdle /\ SchedIdle /\ PredIdle
    /\ ((ConsInit /\ RaceDataIdle) \/ (ConsIdle /\ RaceDataInit))

RelativePaceNext ==
    \/ cons_load_fails
    \/ cons_collect_paces
    \/ cons_no_paces
    \/ cons_normalize
    \/ cons_season_end
    \/ rd_load_fails
    \/ rd_fastest_race_pace
    \/ rd_driver_entries

SpecRelativePace == RelativePaceStart /\ [][RelativePaceNext]_vars

(***************************************************************************)
(* Claims.                                                                 *)
(***************************************************************************)
Numbered(laps) == \A i \in 1..Len(laps) : laps[i].LapNumber # NaN
Assigned == pc \in {"analyze", "loop", "done"} /\ race_laps # <<>>
Grouped == pc \in {"loop", "done"}

\* C1: after the Lap Filter of compare_drivers_lap_times, valid_laps holds exactly
\* the laps of driver_laps that are accurate, timed and neither pit-in nor pit-out
\* laps, each once, in the order of driver_laps (a subsequence of the input).
C1_LapFilterSubsequence ==
    cmp_pc = "filtered" =>
        /\ \A i \in 1..Len(valid_laps) :
               /\ \E j \in 1..Len(driver_laps) : valid_laps[i] = driver_laps[j]
               /\ valid_laps[i].IsAccurate
               /\ valid_laps[i].LapTime # NaT
               /\ ~valid_laps[i].PitInTime
               /\ ~valid_laps[i].PitOutTime
        /\ \A j \in 1..Len(driver_laps) :
               (/\ driver_laps[j].IsAccurate
                /\ driver_laps[j].LapTime # NaT
                /\ ~driver_laps[j].PitInTime
                /\ ~driver_laps[j].PitOutTime)
               => \E i \in 1..Len(valid_laps) : valid_laps[i] = driver_laps[j]
        /\ \A i, k \in 1..Len(valid_laps) :
               i < k => valid_laps[i].LapNumber < valid_laps[k].LapNumber

\* a lap is kept and an accurate, timed pit-out lap is dropped
C1_Witness ==
    /\ cmp_pc = "filtered"
    /\ valid_laps # <<>>
    /\ \E j \in 1..Len(driver_laps) :
           /\ driver_laps[j].PitOutTime
           /\ driver_laps[j].IsAccurate
           /\ driver_laps[j].LapTime # NaT

\* C2: a lap sequence with N laps carrying a pit-out timestamp gets exactly N+1
\* distinct stint ids from the pit-flag based assignment.  Stated for the
\* sequences that begin with a lap on track, so that each of the N+1 stints has
\* a lap.
C2_StintCount ==
    (Assigned /\ ~PitFlag(race_laps[1])) =>
        Cardinality({race_laps[i].Stint : i \in 1..Len(race_laps)})
            = Cardinality({i \in 1..Len(race_laps) : race_laps[i].PitOutTime}) + 1

RECURSIVE ConcatGroups(_, _, _)
ConcatGroups(laps, keys, k) ==
    IF k > Len(keys) THEN <<>>
    ELSE Group(laps, keys[k]) \o ConcatGroups(laps, keys, k + 1)

\* C3: the stint groups, concatenated in the order in which analyze_race_stints
\* iterates them (ascending stint id), reproduce the lap sequence exactly.
C3_StintRoundTrip ==
    Grouped => ConcatGroups(race_laps, stints, 1) = race_laps

\* C4: a lap with a pit-out timestamp has the stint id of the non-pit laps that
\* directly follow it, and an id different from every lap before it: the pit-out
\* lap is the first lap of the new stint.
C4_PitOutOpensStint ==
    Assigned =>
        \A i \in 1..Len(race_laps) :
            race_laps[i].PitOutTime =>
                /\ \A j \in (i + 1)..Len(race_laps) :
                       (\A m \in (i + 1)..j : ~PitFlag(race_laps[m]))
                           => race_laps[j].Stint = race_laps[i].Stint
                /\ \A j \in 1..(i - 1) : race_laps[j].Stint # race_laps[i].Stint

\* C5: with strictly increasing lap numbers, the lap numbers of every stint are
\* strictly increasing and every stint is contiguous: a lap lying between two laps
\* of one stint belongs to that stint, unless it is a pit-in or pit-out lap.
C5_StintContiguous ==
    (Assigned /\ Numbered(race_laps)) =>
        \A i, k \in 1..Len(race_laps) :
            (i < k /\ race_laps[i].Stint = race_laps[k].Stint) =>
                /\ race_laps[i].LapNumber < race_laps[k].LapNumber
                /\ \A j \in (i + 1)..(k - 1) :
                       \/ race_laps[j].Stint = race_laps[i].Stint
                       \/ PitFlag(race_laps[j])

\* the filtered laps of the stint with id k, and their lap times
ValidOf(k) == LapFilter(Group(race_laps, k))
TimesOf(k) == LapTimesOf(ValidOf(k))
NumberedIn(laps) == {i \in 1..Len(laps) : laps[i].LapNumber # NaN}
LapNumbersOf(laps) == {laps[i].LapNumber : i \in 1..Len(laps)} \ {NaN}
HasRow(k) == \E r \in 1..Len(stint_data) : stint_data[r].Stint = k
HasFit(k) == \E c \in 1..Len(polyfit_calls) : polyfit_calls[c].Stint = k
\* lap i of the stint is an extreme outlier: more than 5 s slower than every other lap
ExtremeOutlier(k, i) ==
    \A j \in 1..Len(TimesOf(k)) : j # i => TimesOf(k)[i] > TimesOf(k)[j] + 50

\* C6: every stint with at least 2 filtered laps that have at least two distinct
\* lap numbers gets a result row with a defined slope (a stint of exactly 2 valid
\* laps is fitted, not skipped).
C6_TwoLapStintFitted ==
    pc = "done" =>
        \A k \in Range(stints) :
            (Len(ValidOf(k)) >= 2 /\ Cardinality(LapNumbersOf(ValidOf(k))) >= 2)
                => (HasRow(k) /\ HasFit(k))

\* C6 as amended: every stint with at least 3 filtered laps, of which one has a lap
\* time strictly between the 5th and the 95th percentile of the stint's lap times
\* and two have distinct lap numbers, gets a result row with a fitted slope; a stint with
\* fewer than 3 filtered laps (so also one with exactly 2) gets no row.
C6_ThreeLapStintFitted ==
    pc = "done" =>
        \A k \in Range(stints) :
            /\ (/\ Len(ValidOf(k)) >= 3
                /\ \E i \in 1..Len(TimesOf(k)) :
                       /\ 100 * TimesOf(k)[i] > Quantile100(TimesOf(k), 5)
                       /\ 100 * TimesOf(k)[i] < Quantile100(TimesOf(k), 95)
                /\ Cardinality(LapNumbersOf(ValidOf(k))) >= 2)
               => /\ HasFit(k)
                  /\ \E r \in 1..Len(stint_data) :
                         /\ stint_data[r].Stint = k
                         /\ stint_data[r].Degradation_s_per_lap.den # 0
            /\ Len(ValidOf(k)) < 3 => ~HasRow(k)

\* a stint of three filtered laps was fitted and reported
C6_Witness ==
    /\ pc = "done"
    /\ \E k \in Range(stints) : Len(ValidOf(k)) = 3 /\ HasRow(k) /\ HasFit(k)

\* C7: the degradation reported for a stint equals the least-squares slope of lap
\* time against relative lap number (time lost per additional lap); for the stint
\* (0, 90.0 s), (1, 90.5 s), (2, 91.0 s) the reported value is 0.5 s, 5 tenths.
\* Stated for the lap tables in which every lap carries its lap number.
C7_DegradationIsSlope ==
    \A r \in 1..Len(stint_data) : \A c \in 1..Len(polyfit_calls) :
        (Numbered(race_laps) /\ polyfit_calls[c].Stint = stint_data[r].Stint) =>
            LET d == stint_data[r].Degradation_s_per_lap
                x == polyfit_calls[c].x
                y == polyfit_calls[c].y
                n == Len(x)
                slope_num == n * SumSeq([i \in 1..n |-> x[i] * y[i]]) - SumSeq(x) * SumSeq(y)
                slope_den == n * SumSeq([i \in 1..n |-> x[i] * x[i]]) - SumSeq(x) * SumSeq(x)
            IN  /\ d.num * slope_den = slope_num * d.den
                /\ (x = <<0, 1, 2>> /\ y = <<900, 905, 910>>) => d.num = 5 * d.den

\* C8: a slope of 0 is never reported for a stint on which no least-squares fit
\* was carried out.
C8_NoFabricatedZero ==
    \A r \in 1..Len(stint_data) :
        stint_data[r].Degradation_s_per_lap.num = 0 => HasFit(stint_data[r].Stint)

\* C9: the lap times handed to the least-squares fit of a stint do not include
\* the stint's extreme outlier lap, which the 5th/95th-percentile trim cuts.
\* Stated for the lap tables in which every lap carries its lap number.
C9_TrimFeedsFit ==
    \A c \in 1..Len(polyfit_calls) :
        LET k == polyfit_calls[c].Stint
        IN  \A i \in NumberedIn(ValidOf(k)) :
                (Numbered(race_laps) /\ ExtremeOutlier(k, i)) =>
                    ~\E m \in 1..Len(polyfit_calls[c].y) :
                         polyfit_calls[c].y[m] = TimesOf(k)[i]

\* C9 as amended: the percentile trim feeds the average pace only.  AvgPace is the
\* mean of the lap times strictly between the two percentiles, so the extreme
\* outlier lap is not averaged in; the least-squares fit is made of all filtered
\* laps of the stint that carry a lap number, the outlier lap included.
C9_TrimFeedsAvgPaceOnly ==
    /\ \A r \in 1..Len(stint_data) :
           Cardinality(NumberedIn(ValidOf(stint_data[r].Stint))) >= 2
               => HasFit(stint_data[r].Stint)
    /\ \A r \in 1..Len(stint_data) : \A c \in 1..Len(polyfit_calls) :
        polyfit_calls[c].Stint = stint_data[r].Stint =>
            LET k == stint_data[r].Stint
                t == TimesOf(k)
                kept == SelectSeq(t, LAMBDA u : 100 * u > Quantile100(t, 5)
                                             /\ 100 * u < Quantile100(t, 95))
                avg == stint_data[r].AvgPace
            IN  /\ avg.num * Len(kept) = SumSeq(kept) * avg.den
                /\ avg.den # 0
                /\ \A i \in 1..Len(t) : ExtremeOutlier(k, i) => t[i] \notin Range(kept)
                /\ Len(polyfit_calls[c].y) = Cardinality(NumberedIn(ValidOf(k)))
                /\ \A i \in NumberedIn(ValidOf(k)) :
                       \E m \in 1..Len(polyfit_calls[c].y) :
                           /\ polyfit_calls[c].y[m] = t[i]
                           /\ polyfit_calls[c].x[m] =
                                  ValidOf(k)[i].LapNumber - MinLapNumber(ValidOf(k))

\* a fitted stint holds an extreme outlier lap, and the fit was made with it
C9_Witness ==
    \E c \in 1..Len(polyfit_calls) :
        LET k == polyfit_calls[c].Stint
        IN  /\ HasRow(k)
            /\ \E i \in NumberedIn(ValidOf(k)) :
                   /\ ExtremeOutlier(k, i)
                   /\ \E m \in 1..Len(polyfit_calls[c].y) :
                          polyfit_calls[c].y[m] = TimesOf(k)[i]

\* C10: every record of the race just normalised holds, for its driver's pace
\* `value` and the reference (the minimum pace of the race), the percentage
\* delta / reference * 100 with delta = value - reference; for the paces 80.0,
\* 82.0 and 84.0 the percentages are 0, 2.5 and 5.
C10_PaceNormalizerFormula ==
    \A r \in 1..Len(season_data) :
        season_data[r].Round = round_idx =>
            LET value == driver_paces[season_data[r].Driver]
                reference == fastest_race_pace
                delta == value - reference
                pct == season_data[r].RacePaceRelative
            IN  /\ value # None
                /\ \E d \in DOMAIN driver_paces : driver_paces[d] = reference
                /\ \A d \in DOMAIN driver_paces :
                       driver_paces[d] # None => reference <= driver_paces[d]
                /\ pct.den # 0
                /\ pct.num * reference = delta * 100 * pct.den
                /\ (reference = 800 /\ value = 800) => pct.num = 0
                /\ (reference = 800 /\ value = 820) => 2 * pct.num = 5 * pct.den
                /\ (reference = 800 /\ value = 840) => pct.num = 5 * pct.den

\* the race with paces 80.0, 82.0 and 84.0 has been normalised
C10_Witness ==
    /\ driver_paces["VER"] = 800
    /\ driver_paces["NOR"] = 820
    /\ driver_paces["PIA"] = 840
    /\ Cardinality({r \in 1..Len(season_data) : season_data[r].Round = round_idx}) = 3

\* C11: no percentage is computed or stored for a driver whose normalisation
\* reference (the qualifying pace) is 0 or absent, and no stored percentage is
\* NaN or Inf (no record has a reference of 0 or None or a denominator of 0).
C11_ReferenceUnavailable ==
    \A r \in 1..Len(results) :
        /\ results[r].QualiPace # None
        /\ results[r].QualiPace # 0
        /\ results[r].DeltaPercent.den # 0

SectorEnded == sector_pc \in {"done", "report", "error"}

\* C12: when analyze_sector_times has ended, every driver other than one whose
\* processing raised an error has been processed by the driver loop, and the
\* drivers with a telemetry entry are reported.
C12_BatchIsolation ==
    SectorEnded =>
        /\ \A i \in 1..Len(sector_driver_codes) :
               i < sector_idx \/ (sector_pc = "error" /\ i = sector_idx)
        /\ fastest_laps_telemetry # <<>> => sector_pc = "report"

\* C13: when no lap of a driver passes the Lap Filter, the iteration of that
\* driver ends without an error and without a lap or a statistic added, the loop
\* goes on to the next driver, and the summary of a driver without valid laps is
\* the "No valid laps to summarize" outcome with no average and no slope.
C13_EmptyFilterIsNoError ==
    /\ [][(cmp_pc = "filtered" /\ LapFilter(driver_laps) = <<>>) =>
              /\ cmp_pc' = "loop"
              /\ driver_idx' = driver_idx + 1
              /\ all_drivers_laps' = all_drivers_laps
              /\ summaries' = summaries]_vars
    /\ [](\A s \in 1..Len(summaries) :
              driver_laps_summary(summaries[s].Driver) = <<>> =>
                  /\ summaries[s].Outcome = "No valid laps to summarize"
                  /\ summaries[s].avg_lap_times = <<>>
                  /\ summaries[s].degradation_info = <<>>)

\* the first driver had laps but no valid lap, the second driver was processed and
\* has valid laps, and both were summarised
C13_Witness ==
    /\ cmp_pc = "done"
    /\ Len(summaries) = 2
    /\ summaries[1].Outcome = "No valid laps to summarize"
    /\ summaries[2].Outcome = "Analysis Results"

CompoundCount(laps, c) == Cardinality({i \in 1..Len(laps) : laps[i].Compound = c})

\* C14: the compound the stint summary reports for a stint is the compound that
\* occurs most often among all member laps of the stint: when one compound has
\* more laps in the stint than every other, it is the one reported.
C14_StintCompoundIsMode ==
    strat_pc = "summary" =>
        \A r \in 1..Len(strat_stints) :
            LET g == Group(strat_laps, strat_stints[r].StintNumber)
            IN  \A c \in Range(CompoundOrder) :
                    (\A o \in Range(CompoundOrder) \ {c} :
                         CompoundCount(g, c) > CompoundCount(g, o))
                        => strat_stints[r].Compound = c

\* the lap table with the Stint column replaced by g
WithStint(laps, g) == [i \in 1..Len(laps) |-> [laps[i] EXCEPT !.Stint = g[i]]]
\* the stint groups of a stints table and their results, without the stint ids
StintGroups(table) ==
    {[Compound    |-> table[r].Compound,
      LapStart    |-> table[r].LapStart,
      LapEnd      |-> table[r].LapEnd,
      StintLength |-> table[r].StintLength,
      AvgLapTime  |-> table[r].AvgLapTime] : r \in 1..Len(table)}

\* C15: the stint groups are a function of the pit flags only: every lap table
\* that differs from the one analysed only in the upstream Stint column gives
\* the same stint groups and the same per-stint results in the stint summary.
C15_SegmentationIgnoresUpstreamStint ==
    strat_pc = "summary" =>
        \A g \in [1..Len(strat_laps) -> UpstreamStints] :
            LET laps == WithStint(strat_laps, g)
            IN  StintGroups(WithAvgLapTime(laps, StintsTable(laps), 1))
                    = StintGroups(strat_stints)

\* C16: in the pit-flag based assignment every lap that precedes the first
\* pit-flagged lap has stint id 1, and a lap table without pit-in and pit-out
\* laps makes exactly one stint, with id 1, that holds all its laps.
C16_LeadingLapsStintOne ==
    Assigned =>
        /\ \A i \in 1..Len(race_laps) :
               (\A j \in 1..i : ~PitFlag(race_laps[j])) => race_laps[i].Stint = 1
        /\ ((\A j \in 1..Len(race_laps) : ~PitFlag(race_laps[j])) /\ Grouped) =>
               /\ stints = <<1>>
               /\ Group(race_laps, 1) = race_laps

\* two laps on track precede the first pit-flagged lap of the table
C16_Witness ==
    /\ Grouped
    /\ Len(race_laps) >= 3
    /\ ~PitFlag(race_laps[1])
    /\ ~PitFlag(race_laps[2])
    /\ PitFlag(race_laps[3])
    /\ race_laps[1].Stint = 1
    /\ race_laps[2].Stint = 1

HasSlope(summary, c) ==
    \E e \in 1..Len(summary.degradation_info) : summary.degradation_info[e].Compound = c

C19_StartPerformanceNeverFails == start_pc # "KeyError"

\* C20: two laps on track that a pit stop separates (a pit-in or pit-out lap of
\* the driver's complete lap sequence lies between them) are never in the same
\* stint, whatever the accuracy flag of the pit lap is.
C20_SegmentationSeesUnfilteredLaps ==
    (Assigned /\ Numbered(session_laps)) =>
        \A a, b \in 1..Len(race_laps) :
            (/\ ~PitFlag(race_laps[a])
             /\ ~PitFlag(race_laps[b])
             /\ \E j \in 1..Len(session_laps) :
                    /\ race_laps[a].LapNumber < j
                    /\ j < race_laps[b].LapNumber
                    /\ PitFlag(session_laps[j]))
                => race_laps[a].Stint # race_laps[b].Stint

\* C21: every degradation rate of the degradation scripts is fitted from the
\* laps of one stint: no two laps of one least-squares fit are separated by a
\* pit stop of the driver, also when both are run on the same compound.
C21_PerStintFit ==
    \A e \in Range(degradation_info) :
        LET x == LapNumberSeq(compound_data(plot_data, e.Compound))
        IN  \A a, b \in Range(x) : \A k \in a..b : ~PitFlag(deg_driver_laps[k])

\* a stint (Stint and Compound) of the laps with two or more timed laps
HasTimedStint(laps) ==
    \E i \in 1..Len(StintCompoundKeys(laps)) :
        Cardinality({j \in 1..Len(laps) :
                        /\ laps[j].Stint = StintCompoundKeys(laps)[i].Stint
                        /\ laps[j].Compound = StintCompoundKeys(laps)[i].Compound
                        /\ laps[j].LapTime # NaT}) >= 2

\* C22: in section 4 of analyze_winner_performance a driver who has at least
\* one stint with two or more timed laps gets a defined (non-NaN) average
\* degradation, the mean of the least-squares slopes of the stints.
C22_TimedStintGivesDegradation ==
    (win_pc = "rated" /\ HasTimedStint(all_driver_laps))
        => driver_degradation[all_drivers_to_analyze[win_idx]].den # 0

\* C23: analyze_race_performance returns an insights dictionary for every race
\* in which at least one driver has valid laps; a race is not dropped because
\* the winner's own row is missing from the performance table.
C23_InsightsForEveryRaceWithLaps ==
    (perf_pc = "returned" /\ driver_performance_data # <<>>)
        => insights # NoInsights

\* the insights counted so far that name a winner who is also the driver of
\* the given field
CountedWinners(field) ==
    Cardinality({i \in 1..(insight_idx - 1) :
                    /\ all_season_insights[i].Winner # NoDriver
                    /\ all_season_insights[i].Winner = all_season_insights[i][field]})

\* C30: in the season summary a race increments winner_fastest_count,
\* winner_consistent_count or winner_dominant_count only if its insights name a
\* winner who is also its OverallFastest / OverallMostConsistent; a race whose
\* performance table ended up empty is never counted.
C30_OnlyNamedWinnersCounted ==
    perf_pc \in {"summary", "done"} =>
        /\ winner_counts.fastest <= CountedWinners("OverallFastest")
        /\ winner_counts.consistent <= CountedWinners("OverallMostConsistent")
        /\ winner_counts.dominant <= CountedWinners("OverallFastest")
        /\ winner_counts.dominant <= CountedWinners("OverallMostConsistent")

\* the events of the schedule that are races dated before today
RacesBeforeToday ==
    {i \in 1..Len(schedule) :
        schedule[i].EventDate < today /\ schedule[i].EventFormat # "testing"}

\* C24: get_most_recent_completed_race returns (None, None) when no event lies
\* before today; otherwise the event it returns is dated strictly before today,
\* is not a testing event, and no race before today has a later date.
C24_MostRecentCompletedRace ==
    sched_pc = "returned" =>
        /\ completed_races(schedule, today) = <<>> => most_recent_race = NoRace
        /\ most_recent_race # NoRace =>
               /\ most_recent_race.EventName \in RacesBeforeToday
               /\ most_recent_race.RoundNumber
                      = schedule[most_recent_race.EventName].RoundNumber
               /\ \A i \in RacesBeforeToday :
                      schedule[i].EventDate
                          <= schedule[most_recent_race.EventName].EventDate

\* the laps of the stint of a row of the stints table that pass the Lap Filter
FilteredStintLaps(row) ==
    LapFilter(SelectSeq(strat_laps, LAMBDA lap : lap.Driver = row.Driver
                                                 /\ lap.Stint = row.StintNumber))

\* C25: in analyze_tire_strategy_impact the AvgLapTime of every stint of the
\* summary is the mean over the laps of the stint that pass the Lap Filter
\* (accurate, timed, neither pit-in nor pit-out), and a stint without any such
\* lap is not in the summary.
C25_AvgLapTimeUsesLapFilter ==
    strat_pc \in {"averaged", "summary"} =>
        \A i \in 1..Len(strat_stints) :
            LET valid == FilteredStintLaps(strat_stints[i])
            IN  /\ valid # <<>>
                /\ strat_stints[i].AvgLapTime.num * Len(valid)
                       = SumSeq(LapTimesOf(valid)) * strat_stints[i].AvgLapTime.den

\* the weighted average av of a non-empty list of (round, value) pairs is
\* sum(round * value) / sum(round) with a divisor that is not 0, lies between
\* the smallest and the largest value, weighs a later round strictly more, and
\* every round of the list lies before the target round
RecencyWeighted(perf_list, av) ==
    LET n == Len(perf_list)
        rounds == [i \in 1..n |-> perf_list[i][1]]
        values == [i \in 1..n |-> perf_list[i][2]]
        total == SumSeq(rounds)
    IN  /\ total # 0
        /\ av.den # 0
        /\ av.num * total = SumSeq([i \in 1..n |-> rounds[i] * values[i]]) * av.den
        /\ av.den > 0
        /\ \E i \in 1..n : values[i] * av.den <= av.num
        /\ \E i \in 1..n : av.num <= values[i] * av.den
        /\ \A i, j \in 1..n :
               rounds[i] < rounds[j] => Weight(perf_list[i]) < Weight(perf_list[j])
        /\ \A i \in 1..n : 1 <= rounds[i] /\ rounds[i] < grand_prix_round_to_predict

NoPitTimestamp(lap) == ~lap.PitInTime /\ ~lap.PitOutTime

\* C27: in the pit-flag based stint assignment two laps without pit-in and
\* pit-out timestamp get the same stint id if and only if no lap with such a
\* timestamp lies between them in the sequence given to the segmenter; the laps
\* of one stint group that pass the Lap Filter are not interrupted by a pit lap.
C27_SameStintIffNoPitBetween ==
    Assigned =>
        \A a, b \in 1..Len(race_laps) :
            (a < b /\ NoPitTimestamp(race_laps[a]) /\ NoPitTimestamp(race_laps[b])) =>
                /\ (race_laps[a].Stint = race_laps[b].Stint)
                       <=> (\A k \in a..b : NoPitTimestamp(race_laps[k]))
                /\ (LapMask(race_laps[a]) /\ LapMask(race_laps[b])
                    /\ race_laps[a].Stint = race_laps[b].Stint)
                       => (\A k \in a..b : NoPitTimestamp(race_laps[k]))

\* a pit-in lap between two laps without pit timestamps separates their stints
C27_Witness ==
    /\ Grouped
    /\ Len(race_laps) = 3
    /\ NoPitTimestamp(race_laps[1])
    /\ race_laps[2].PitInTime
    /\ NoPitTimestamp(race_laps[3])
    /\ race_laps[1].Stint # race_laps[3].Stint

\* the entries of get_race_data whose RacePaceRelative is a number
NumericEntries ==
    {d \in DOMAIN rd_data :
        /\ rd_data[d].RacePaceRelative # NoRelativePace
        /\ rd_data[d].RacePaceRelative.den # 0}

PrintedAt(kind, code, sector) ==
    {k \in 1..Len(sector_printed) :
        /\ sector_printed[k].Figure = kind
        /\ sector_printed[k].Driver = code
        /\ sector_printed[k].Sector = sector}

\* driver_codes in the opposite order
ReversedCodes ==
    [i \in 1..Len(sector_driver_codes) |->
        sector_driver_codes[Len(sector_driver_codes) + 1 - i]]

\* the figures of a summary, without their order
FiguresOf(summary) == {summary[k] : k \in 1..Len(summary)}

\* C29: when analyze_sector_times has printed its summary, every driver of
\* driver_codes that has valid laps has exactly one ideal lap time and exactly
\* one delta to the fastest sector per sector, each computed from the laps of
\* that driver, and the same figures are printed when driver_codes is given in
\* the opposite order.
C29_IdealLapAndDeltaPerDriver ==
    sector_pc = "report" =>
        /\ \A i \in 1..Len(sector_driver_codes) :
               LET code == sector_driver_codes[i]
                   driver_data == DriverData(sector_all_drivers_laps, code)
               IN  driver_data # <<>> =>
                       /\ Cardinality(PrintedAt("IdealLap", code, 0)) = 1
                       /\ \A k \in PrintedAt("IdealLap", code, 0) :
                              sector_printed[k].Value = IdealLapTime(driver_data)
                       /\ \A s \in 1..Len(Sectors) :
                              /\ Cardinality(PrintedAt("Delta", code, Sectors[s])) = 1
                              /\ \A k \in PrintedAt("Delta", code, Sectors[s]) :
                                     sector_printed[k].Value =
                                         DeltaToFastest(driver_data, sector_all_drivers_laps,
                                                        Sectors[s])
        /\ FiguresOf(sector_printed)
               = FiguresOf(SectorSummary(sector_all_drivers_laps, ReversedCodes))

====
